---------------------------- MODULE Spec2Model ----------------------------
(***************************************************************************)
(* Host-side scene core of pbr-gpu: tagged 32-bit handles, the Scene arena *)
(* and its add_* constructors, the SAH BVH builder and the power light     *)
(* sampler (alias table).                                                  *)
(*                                                                         *)
(* Number representation.  TLC integers are 32-bit signed, so a u32 is a   *)
(* pair <<hi, lo>> of 16-bit limbs and a usize is a triple <<ext, hi, lo>> *)
(* (ext = the bits above bit 31).  f32 values are modelled by exact        *)
(* rationals (rounding is not modelled).                                   *)
(***************************************************************************)
EXTENDS Integers, Sequences, FiniteSets, TLC

(***************************************************************************)
(* Bounds of the model.                                                    *)
(***************************************************************************)
MaxCalls == 3        \* arena specification: number of add_* calls
MaxObjs == 4         \* BVH specification: number of calls, and of objects of one BVH
MaxLights == 3       \* light specification: number of lights of one sampler
MaxWrites == 2       \* refinement specification: number of writes of the kernel
MaxIter == 2         \* refinement specification: number of refinements
MaxBspNodes == 7     \* refinement specification: size of a BSP that is developed
MaxSamples == 40     \* render loop specification: planned samples
MaxTime == 20        \* render loop specification: time limit, in clock ticks
MaxDeepIter == 6      \* deep-tree specification: number of refinements
LongRender == 200    \* schedule specification: planned samples of a long render
MaxDirectives == 4   \* loader specification: directives of the scene file
MaxOffset == 4       \* loader specification: largest translation of the state

(***************************************************************************)
(* u32 / usize arithmetic on 16-bit limbs.                                 *)
(***************************************************************************)
Limb == 2^16

RECURSIVE BitAnd(_, _, _)
BitAnd(a, b, n) ==
    IF n = 0 THEN 0
    ELSE (a % 2) * (b % 2) + 2 * BitAnd(a \div 2, b \div 2, n - 1)

RECURSIVE BitOr(_, _, _)
BitOr(a, b, n) ==
    IF n = 0 THEN 0
    ELSE (IF (a % 2) + (b % 2) > 0 THEN 1 ELSE 0)
         + 2 * BitOr(a \div 2, b \div 2, n - 1)

W_and(x, y) == << BitAnd(x[1], y[1], 16), BitAnd(x[2], y[2], 16) >>
W_or(x, y) == << BitOr(x[1], y[1], 16), BitOr(x[2], y[2], 16) >>
W_not(x) == << Limb - 1 - x[1], Limb - 1 - x[2] >>

\* x << s on u32, 0 <= s < 32 (bits shifted out are dropped)
W_shl(x, s) ==
    IF s >= 16
    THEN << (x[2] % 2^(32 - s)) * 2^(s - 16), 0 >>
    ELSE << ((x[1] % 2^(16 - s)) * 2^s + (x[2] \div 2^(16 - s))) % Limb,
            (x[2] % 2^(16 - s)) * 2^s >>

\* x - 1 on u32, x # 0
W_dec(x) == IF x[2] > 0 THEN << x[1], x[2] - 1 >> ELSE << x[1] - 1, Limb - 1 >>

W_of(n) == << n \div Limb, n % Limb >>          \* small literal as u32
U_of(n) == << 0, n \div Limb, n % Limb >>       \* Vec::len() as usize
U_as_u32(u) == << u[2], u[3] >>                 \* `idx as u32` (truncation)
W_as_usize(w) == << 0, w[1], w[2] >>            \* `x as usize`
U_le(u, v) ==
    \/ u[1] < v[1]
    \/ u[1] = v[1] /\ u[2] < v[2]
    \/ u[1] = v[1] /\ u[2] = v[2] /\ u[3] <= v[3]
U_nat(u) == u[2] * Limb + u[3]                  \* usize < 2^31 as a number

(***************************************************************************)
(* Handle kinds: the seven XxxId types and their variant enums.            *)
(***************************************************************************)
Kinds == {"ShapeId", "NodeId", "LightId", "MaterialId", "TextureId",
          "SpectrumId", "LightSamplerId"}

TAG_BITS(kind) ==
    CASE kind = "ShapeId" -> 1
      [] kind = "NodeId" -> 2
      [] kind = "LightId" -> 2
      [] kind = "MaterialId" -> 3
      [] kind = "TextureId" -> 3
      [] kind = "SpectrumId" -> 3
      [] kind = "LightSamplerId" -> 1

\* the variants of each #[repr(u32)] enum, in discriminant order
Variants(kind) ==
    CASE kind = "ShapeId" -> << "Sphere", "Triangle" >>
      [] kind = "NodeId" -> << "Bvh", "Transform", "Primitive" >>
      [] kind = "LightId" -> << "Uniform", "Image", "Area" >>
      [] kind = "MaterialId" ->
            << "Diffuse", "DiffuseTransmit", "Conductor", "Dielectric",
               "ThinDielectric", "MetallicWorkflow", "Mix" >>
      [] kind = "TextureId" ->
            << "ConstantFloat", "ConstantRgb", "ConstantSpectrum", "ImageRgb",
               "Scale", "Mix", "Checkerboard" >>
      [] kind = "SpectrumId" ->
            << "Table", "Constant", "RgbAlbedo", "RgbIlluminant", "Blackbody",
               "PiecewiseLinear", "RgbIorIm" >>
      [] kind = "LightSamplerId" -> << "Uniform", "Power" >>

VariantSet(kind) == { Variants(kind)[i] : i \in 1..Len(Variants(kind)) }

TAG_SHIFT(kind) == 32 - TAG_BITS(kind)
IDX_MASK(kind) == W_dec(W_shl(W_of(1), TAG_SHIFT(kind)))
TAG_MASK(kind) == W_not(IDX_MASK(kind))

\* `ty as u32`: the discriminant  n << TAG_SHIFT  of variant number n
Discriminant(kind, variant) ==
    LET n == CHOOSE i \in 1..Len(Variants(kind)) : Variants(kind)[i] = variant
    IN  W_shl(W_of(n - 1), TAG_SHIFT(kind))

\* result of a panicking call
Panic == << >>

\* XxxId::new without its assert! (mutation of Id_new)
Id_new_unchecked(kind, variant, index) ==
    W_or(U_as_u32(index), Discriminant(kind, variant))

\* XxxId::new(ty, idx)
Id_new(kind, variant, index) ==
    IF ~ U_le(index, W_as_usize(IDX_MASK(kind)))
    THEN Panic
    ELSE W_or(U_as_u32(index), Discriminant(kind, variant))

\* XxxId::ty(self): transmute(self.0 & TAG_MASK); a bit pattern that is no
\* discriminant of the enum is undefined behaviour, reported as "invalid"
Id_ty(kind, h) ==
    LET bits == W_and(h, TAG_MASK(kind))
        hit == { v \in VariantSet(kind) : Discriminant(kind, v) = bits }
    IN  IF hit = {} THEN "invalid" ELSE CHOOSE v \in hit : TRUE

\* XxxId::idx(self)
Id_idx(kind, h) == W_as_usize(W_and(h, IDX_MASK(kind)))


(***************************************************************************)
(* Exact rationals standing for f32 values: [n, d] with d > 0 in lowest    *)
(* terms; d = 0 is a non-finite value (n = 0: NaN, n > 0: +inf, n < 0:     *)
(* -inf).  Comparisons with NaN are false, as in IEEE 754.  Geometry is    *)
(* kept in integers: the inputs are small integers, on which the f32       *)
(* operations min, max, +, - and * of the source are exact.                *)
(***************************************************************************)
RECURSIVE Gcd(_, _)
Gcd(a, b) == IF b = 0 THEN a ELSE Gcd(b, a % b)

Abs(x) == IF x < 0 THEN -x ELSE x
Sign(x) == IF x > 0 THEN 1 ELSE IF x < 0 THEN -1 ELSE 0

F_norm(n, d) ==
    IF d = 0 THEN [n |-> Sign(n), d |-> 0]
    ELSE LET g == Gcd(Abs(n), Abs(d))
         IN  [n |-> Sign(d) * (n \div g), d |-> Abs(d) \div g]

F_of(k) == [n |-> k, d |-> 1]
F_nan == [n |-> 0, d |-> 0]
F_is_nan(a) == a.d = 0 /\ a.n = 0
F_is_finite(a) == a.d > 0

F_add(a, b) ==
    IF F_is_nan(a) \/ F_is_nan(b) THEN F_nan
    ELSE IF a.d = 0 /\ b.d = 0 THEN (IF a.n = b.n THEN a ELSE F_nan)
    ELSE IF a.d = 0 THEN a
    ELSE IF b.d = 0 THEN b
    ELSE F_norm(a.n * b.d + b.n * a.d, a.d * b.d)

F_neg(a) == [n |-> -a.n, d |-> a.d]
F_sub(a, b) == F_add(a, F_neg(b))

F_mul(a, b) ==
    IF F_is_nan(a) \/ F_is_nan(b) THEN F_nan
    ELSE IF (a.d = 0 /\ b.n = 0) \/ (b.d = 0 /\ a.n = 0) THEN F_nan
    ELSE IF a.d = 0 \/ b.d = 0 THEN [n |-> Sign(a.n) * Sign(b.n), d |-> 0]
    ELSE F_norm(a.n * b.n, a.d * b.d)

F_div(a, b) ==
    IF F_is_nan(a) \/ F_is_nan(b) THEN F_nan
    ELSE IF a.d = 0 /\ b.d = 0 THEN F_nan
    ELSE IF b.d = 0 THEN F_of(0)
    ELSE IF b.n = 0 THEN [n |-> Sign(a.n), d |-> 0]      \* 0/0 = NaN, x/0 = inf
    ELSE IF a.d = 0 THEN [n |-> Sign(a.n) * Sign(b.n), d |-> 0]
    ELSE F_norm(a.n * b.d, a.d * b.n)

F_lt(a, b) ==
    IF F_is_nan(a) \/ F_is_nan(b) THEN FALSE
    ELSE IF a.d = 0 /\ b.d = 0 THEN a.n < b.n
    ELSE IF a.d = 0 THEN a.n < 0
    ELSE IF b.d = 0 THEN b.n > 0
    ELSE a.n * b.d < b.n * a.d

F_le(a, b) == F_lt(a, b) \/ (~ F_is_nan(a) /\ a = b)

RECURSIVE F_sum(_)
F_sum(vs) == IF vs = << >> THEN F_of(0) ELSE F_add(F_sum(SubSeq(vs, 1, Len(vs) - 1)), vs[Len(vs)])

(***************************************************************************)
(* Vec3 and Bounds (scene.rs).                                             *)
(***************************************************************************)
Min(a, b) == IF a < b THEN a ELSE b
Max(a, b) == IF a > b THEN a ELSE b

V_min(p, q) == << Min(p[1], q[1]), Min(p[2], q[2]), Min(p[3], q[3]) >>
V_max(p, q) == << Max(p[1], q[1]), Max(p[2], q[2]), Max(p[3], q[3]) >>
V_ZERO == << 0, 0, 0 >>

\* glam Vec3::max_position: index (0-based) of the first maximum element
max_position(v) ==
    LET i1 == IF v[2] > v[1] THEN 1 ELSE 0
        m1 == IF v[2] > v[1] THEN v[2] ELSE v[1]
    IN  IF v[3] > m1 THEN 2 ELSE i1

RECURSIVE from_points(_)
from_points(points) ==
    IF Len(points) = 1 THEN [min |-> points[1], max |-> points[1]]
    ELSE LET rest == from_points(SubSeq(points, 1, Len(points) - 1))
             p == points[Len(points)]
         IN  [min |-> V_min(rest.min, p), max |-> V_max(rest.max, p)]

size(b) == << b.max[1] - b.min[1], b.max[2] - b.min[2], b.max[3] - b.min[3] >>

surface_area(b) ==
    LET sz == size(b)
    IN  2 * (sz[1] * sz[2] + sz[1] * sz[3] + sz[2] * sz[3])

union(a, b) == [min |-> V_min(a.min, b.min), max |-> V_max(a.max, b.max)]

\* (min + max) * 0.5, as exact rationals
centroid(b) ==
    << F_norm(b.min[1] + b.max[1], 2), F_norm(b.min[2] + b.max[2], 2),
       F_norm(b.min[3] + b.max[3], 2) >>

corners(b) ==
    [ i \in 1..8 |->
        << IF ((i - 1) % 2) # 0 THEN b.max[1] ELSE b.min[1],
           IF (((i - 1) \div 2) % 2) # 0 THEN b.max[2] ELSE b.min[2],
           IF (((i - 1) \div 4) % 2) # 0 THEN b.max[3] ELSE b.min[3] >> ]

\* Mat4::transform_point3 for the affine maps used here: a per-axis scale
\* followed by a translation
transform_point3(mat, p) ==
    << mat.sc[1] * p[1] + mat.t[1], mat.sc[2] * p[2] + mat.t[2],
       mat.sc[3] * p[3] + mat.t[3] >>

(***************************************************************************)
(* State.                                                                  *)
(*   scene         the Scene arena: one sequence per backing array         *)
(*   light_powers  radiant power of each non-infinite light, as the        *)
(*                 renderer's light_power function reports it              *)
(*   last          the last call made: its name, the handles it returned   *)
(*                 and whether it returned (ok) or panicked; for add_bvh   *)
(*                 also the inputs and the split chosen for every slice    *)
(*   issued        log of the handles returned so far, each with the       *)
(*                 record passed to the call that created it               *)
(*   hcall         handle specification: the arguments of XxxId::new, its  *)
(*                 result and what ty() and idx() decode from it           *)
(*   builder       loader specification: the fields of SceneBuilder that   *)
(*                 the object directives use (loader/pbrt.rs)              *)
(***************************************************************************)
VARIABLES scene, light_powers, last, issued, hcall,
          guided, device, loop, refined, builder

vars == << scene, light_powers, last, issued, hcall,
           guided, device, loop, refined, builder >>

\* the variables of the path guide (main.rs) and those of the arena
gvars == << guided, device, loop, refined >>
avars == << scene, light_powers, last, issued, hcall, builder >>

\* the arena is driven directly, without a SceneBuilder
NoBuilder == << >>

\* no path guide has been constructed (the integrator is not "guided")
GuideUnused ==
    /\ guided = << >>
    /\ device = << >>
    /\ loop = << >>
    /\ refined = << >>

U32_MAX == << Limb - 1, Limb - 1 >>
LightId_ZERO == << 0, 0 >>
NodeId_ZERO == << 0, 0 >>

\* the Vec fields of struct Scene (scene.rs) and all_lights (light.rs)
ArrayNames ==
    { "spheres", "triangles", "triangle_vertices", "bvh_nodes",
      "transform_nodes", "primitive_nodes", "constant_float_tex",
      "constant_spectrum_tex", "images", "diffuse_mat", "infinite_lights",
      "all_lights", "uniform_lights", "image_lights", "area_lights",
      "table_spectra", "constant_spectra", "rgb_albedo_spectra",
      "piecewise_linear_spectra", "float_data", "uniform_light_samplers",
      "uniform_light_sampler_data", "power_light_samplers",
      "power_light_sampler_data" }

\* Scene::default(); named_spectra is the HashMap, as a set of pairs
Scene_default ==
    [ a \in ArrayNames \cup {"named_spectra"} |->
        IF a = "named_spectra" THEN { } ELSE << >> ]

\* Option<T>
None == << >>
Some(v) == << v >>

\* outcome of a call on the arena
\* F applied to the value of v, which is evaluated once
With(v, F(_)) == CHOOSE r \in { F(x) : x \in {v} } : TRUE

Ret(s, rets) == [scene |-> s, rets |-> rets, ok |-> TRUE]
Abort(s) == [scene |-> s, rets |-> << >>, ok |-> FALSE]

\* mutation of push_record: the new record is put in front, so every record
\* stored before moves up by one
push_record_front(s, kind, variant, array, rec) ==
    LET id == Id_new(kind, variant, U_of(Len(s[array])))
    IN  IF id = Panic THEN Abort(s)
        ELSE Ret([s EXCEPT ![array] = << rec >> \o @], << id >>)

\* the body shared by the add_* constructors:
\*   let id = XxxId::new(ty, self.array.len()); self.array.push(rec); id
push_record(s, kind, variant, array, rec) ==
    LET id == Id_new(kind, variant, U_of(Len(s[array])))
    IN  IF id = Panic THEN Abort(s)
        ELSE Ret([s EXCEPT ![array] = Append(@, rec)], << id >>)

add_sphere(s, sphere) == push_record(s, "ShapeId", "Sphere", "spheres", sphere)

add_primitive(s, prim) ==
    push_record(s, "NodeId", "Primitive", "primitive_nodes", prim)

add_transform(s, transform, node) ==
    push_record(s, "NodeId", "Transform", "transform_nodes",
                [transform |-> transform, object |-> node,
                 _padding |-> << 0, 0, 0 >>])

add_diffuse_material(s, texture, normal_map) ==
    push_record(s, "MaterialId", "Diffuse", "diffuse_mat",
                [texture |-> texture,
                 normal_map |-> IF normal_map = None THEN U32_MAX
                                ELSE normal_map[1]])

add_constant_float_texture(s, value) ==
    push_record(s, "TextureId", "ConstantFloat", "constant_float_tex",
                [value |-> value])

add_constant_spectrum_texture(s, spectrum) ==
    push_record(s, "TextureId", "ConstantSpectrum", "constant_spectrum_tex",
                [spectrum |-> spectrum])

add_table_spectrum(s, spectrum) ==
    push_record(s, "SpectrumId", "Table", "table_spectra", spectrum)

add_constant_spectrum(s, value) ==
    push_record(s, "SpectrumId", "Constant", "constant_spectra",
                [value |-> value])

add_rgb_albedo_spectrum(s, rgb) ==
    push_record(s, "SpectrumId", "RgbAlbedo", "rgb_albedo_spectra",
                [rgb |-> rgb, _padding |-> 0])

\* Scene::add_float_data: returns the base offset
add_float_data(s, data) ==
    [scene |-> [s EXCEPT !.float_data = @ \o data], base |-> Len(s.float_data)]

RECURSIVE as_flattened(_)
as_flattened(data) ==
    IF data = << >> THEN << >>
    ELSE as_flattened(SubSeq(data, 1, Len(data) - 1)) \o data[Len(data)]

add_piecewise_linear_spectrum(s, data) ==
    LET id == Id_new("SpectrumId", "PiecewiseLinear",
                     U_of(Len(s.piecewise_linear_spectra)))
        fd == add_float_data(s, as_flattened(data))
    IN  IF id = Panic THEN Abort(s)
        ELSE Ret([fd.scene EXCEPT !.piecewise_linear_spectra =
                      Append(@, [ptr |-> fd.base, entries |-> Len(data)])],
                 << id >>)

\* Scene::add_triangles: one handle per index triple, in creation order
add_triangles(s, verts, tris) ==
    LET base_index == Len(s.triangle_vertices)
        base_idx == Len(s.triangles)
        s1 == [s EXCEPT
                 !.triangle_vertices = @ \o verts,
                 !.triangles = @ \o
                     [ i \in 1..Len(tris) |->
                         [vertices |-> [ j \in 1..3 |-> tris[i][j] + base_index ]] ]]
        ids == [ i \in 1..Len(tris) |->
                   Id_new("ShapeId", "Triangle", U_of(base_idx + i - 1)) ]
    IN  IF \E i \in 1..Len(tris) : ids[i] = Panic THEN Abort(s1)
        ELSE Ret(s1, ids)

\* Scene::add_image with the outcome of the file load as an argument: None
\* (the load failed) or Some(float image); returns Option<u32>
add_image(s, loaded) ==
    IF loaded = None THEN [scene |-> s, id |-> None]
    ELSE [scene |-> [s EXCEPT !.images = Append(@, loaded[1])],
          id |-> Some(Len(s.images))]

(***************************************************************************)
(* Table samplers (scene/other.rs) and lights (scene/light.rs).            *)
(***************************************************************************)
\* cdf of one row: cdf[0] = 0, cdf[i + 1] = cdf[i] + |f[i]|
RECURSIVE row_cdf(_)
row_cdf(f) ==
    IF f = << >> THEN << 0 >>
    ELSE LET c == row_cdf(SubSeq(f, 1, Len(f) - 1))
         IN  Append(c, c[Len(c)] + Abs(f[Len(f)]))

RECURSIVE rows_cdf(_, _, _)
rows_cdf(f, width, height) ==
    IF height = 0 THEN << >>
    ELSE rows_cdf(f, width, height - 1)
         \o row_cdf(SubSeq(f, (height - 1) * width + 1, height * width))

RECURSIVE marginal_cdf(_, _, _)
marginal_cdf(cdfs, width, y) ==
    IF y = 0 THEN << 0 >>
    ELSE LET c == marginal_cdf(cdfs, width, y - 1)
         IN  Append(c, c[Len(c)] + cdfs[(y - 1) * (width + 1) + width + 1])

\* Scene::add_2d_table_sampler
add_2d_table_sampler(s, min_x, max_x, min_y, max_y, width, height, f) ==
    IF width * height # Len(f) THEN [scene |-> s, ok |-> FALSE, sampler |-> None]
    ELSE LET rows == rows_cdf(f, width, height)
             cdfs == rows \o marginal_cdf(rows, width, height)
             fd == add_float_data(s, cdfs)
         IN  [scene |-> fd.scene, ok |-> TRUE,
              sampler |-> Some([min_x |-> min_x, max_x |-> max_x,
                                min_y |-> min_y, max_y |-> max_y,
                                cdf_ptr |-> fd.base, width |-> width,
                                height |-> height])]

\* Scene::image_sampling_distribution (ImageData::Float images); indexing
\* self.images out of range panics
image_sampling_distribution(s, image) ==
    IF image + 1 > Len(s.images) THEN [scene |-> s, ok |-> FALSE, sampler |-> None]
    ELSE LET img == s.images[image + 1]
         IN  add_2d_table_sampler(s, 0, 1, 0, 1, img.width, img.height, img.data)

\* mutation of add_uniform_light: the light is not entered in the lists
add_uniform_light_unlisted(s, spectrum) ==
    push_record(s, "LightId", "Uniform", "uniform_lights",
                [spectrum |-> spectrum, light_sampling_path |-> 0])

add_uniform_light(s, spectrum) ==
    LET id == Id_new("LightId", "Uniform", U_of(Len(s.uniform_lights)))
    IN  IF id = Panic THEN Abort(s)
        ELSE Ret([s EXCEPT
                    !.infinite_lights = Append(@, id),
                    !.all_lights = Append(@, id),
                    !.uniform_lights =
                        Append(@, [spectrum |-> spectrum,
                                   light_sampling_path |-> 0])],
                 << id >>)

add_image_light(s, transform, image, scale) ==
    LET sd == image_sampling_distribution(s, image)
        s1 == sd.scene
        id == Id_new("LightId", "Image", U_of(Len(s1.image_lights)))
    IN  IF ~ sd.ok \/ id = Panic THEN Abort(s1)
        ELSE Ret([s1 EXCEPT
                    !.infinite_lights = Append(@, id),
                    !.all_lights = Append(@, id),
                    !.image_lights =
                        Append(@, [transform |-> transform, image |-> image,
                                   scale |-> scale, light_sampling_path |-> 0,
                                   sampling_distr |-> sd.sampler[1],
                                   _padding |-> << 0, 0 >>])],
                 << id >>)

add_area_light(s, shape, spectrum, alpha) ==
    LET id == Id_new("LightId", "Area", U_of(Len(s.area_lights)))
    IN  IF id = Panic THEN Abort(s)
        ELSE Ret([s EXCEPT
                    !.all_lights = Append(@, id),
                    !.area_lights =
                        Append(@, [spectrum |-> spectrum,
                                   transform_node |-> NodeId_ZERO,
                                   shape |-> shape, alpha |-> alpha,
                                   two_sided |-> 0,
                                   light_sampling_path |-> 0])],
                 << id >>)

LightArray(variant) ==
    CASE variant = "Uniform" -> "uniform_lights"
      [] variant = "Image" -> "image_lights"
      [] variant = "Area" -> "area_lights"

\* Scene::set_light_sampling_path; indexing out of range panics, and so
\* does (here) a handle whose tag bits are no LightType
set_light_sampling_path(s, light, path) ==
    LET variant == Id_ty("LightId", light)
        i == U_nat(Id_idx("LightId", light)) + 1
    IN  IF variant = "invalid" THEN [scene |-> s, ok |-> FALSE]
        ELSE IF i > Len(s[LightArray(variant)]) THEN [scene |-> s, ok |-> FALSE]
        ELSE [scene |-> [s EXCEPT ![LightArray(variant)][i].light_sampling_path = path],
              ok |-> TRUE]

\* for (i, &light) in lights.iter().enumerate() { set_light_sampling_path(light, i) }
RECURSIVE set_paths(_, _, _)
set_paths(s, lights, n) ==
    IF n = 0 THEN [scene |-> s, ok |-> TRUE]
    ELSE LET r == set_paths(s, lights, n - 1)
         IN  IF ~ r.ok THEN r
             ELSE set_light_sampling_path(r.scene, lights[n], n - 1)

(***************************************************************************)
(* Light samplers (scene/light_sampler.rs).                                *)
(***************************************************************************)
add_uniform_light_sampler(s, lights) ==
    LET id == Id_new("LightSamplerId", "Uniform",
                     U_of(Len(s.uniform_light_samplers)))
        ptr == Len(s.uniform_light_sampler_data)
        s1 == [s EXCEPT !.uniform_light_sampler_data = @ \o lights]
        sp == set_paths(s1, lights, Len(lights))
    IN  IF id = Panic THEN Abort(s)
        ELSE IF ~ sp.ok THEN Abort(sp.scene)
        ELSE Ret([sp.scene EXCEPT !.uniform_light_samplers =
                      Append(@, [ptr |-> ptr, count |-> Len(lights)])],
                 << id >>)

\* LightId::is_infinite: the uniform and the image light are the infinite
\* lights (they are the ones add_* enters in infinite_lights)
is_infinite(light) == Id_ty("LightId", light) \in {"Uniform", "Image"}

\* Scene::light_power: the radiant power the renderer computes for a light
light_power(s, light) == F_of(light_powers[light])

\* lines 61-67: 0.0 for an infinite light, light_power otherwise
initial_powers(s, lights) ==
    [ i \in 1..Len(lights) |->
        IF is_infinite(lights[i]) THEN F_of(0) ELSE light_power(s, lights[i]) ]

\* mutation of infinite_total: the power of the infinite lights is added to
\* the total once, however many of them there are
infinite_total_once(lights, total_noninfinite, n) ==
    IF \E i \in 1..n : is_infinite(lights[i])
    THEN F_add(total_noninfinite, total_noninfinite)
    ELSE total_noninfinite

\* lines 71-76: running total after the first n lights
RECURSIVE infinite_total(_, _, _)
infinite_total(lights, total_noninfinite, n) ==
    IF n = 0 THEN total_noninfinite
    ELSE IF is_infinite(lights[n])
         THEN F_add(infinite_total(lights, total_noninfinite, n - 1),
                    total_noninfinite)
         ELSE infinite_total(lights, total_noninfinite, n - 1)

\* mutation of light_pmf: the infinite lights share one copy of the power of
\* the other lights between them
light_pmf_shared(s, lights) ==
    LET powers0 == [ i \in 1..Len(lights) |->
                       IF is_infinite(lights[i]) THEN F_of(0)
                       ELSE F_of(light_powers[lights[i]]) ]
        total_noninfinite == F_sum(powers0)
        k == Cardinality({ i \in 1..Len(lights) : is_infinite(lights[i]) })
        total == IF k = 0 THEN total_noninfinite
                 ELSE F_add(total_noninfinite, total_noninfinite)
    IN  [ i \in 1..Len(lights) |->
            F_div(IF is_infinite(lights[i])
                  THEN F_div(total_noninfinite, F_of(k))
                  ELSE powers0[i], total) ]

\* lines 61-79: the normalised powers
light_pmf(s, lights) ==
    LET powers0 == initial_powers(s, lights)
        total_noninfinite == F_sum(powers0)
        total == infinite_total(lights, total_noninfinite, Len(lights))
        powers == [ i \in 1..Len(lights) |->
                      IF is_infinite(lights[i]) THEN total_noninfinite
                      ELSE powers0[i] ]
    IN  [ i \in 1..Len(lights) |-> F_div(powers[i], total) ]

\* lines 85-99 without the sampling paths: the two work stacks and the
\* initial table after the first n lights
RECURSIVE alias_init(_, _, _)
alias_init(lights, pmf, n) ==
    IF n = 0 THEN [under |-> << >>, over |-> << >>, table |-> << >>]
    ELSE LET r == alias_init(lights, pmf, n - 1)
             remaining == F_mul(pmf[n], F_of(Len(lights)))
             e == [i |-> n - 1, remain |-> remaining]
             b == [light |-> lights[n], pmf |-> pmf[n], q |-> F_of(0),
                   alias |-> U32_MAX]
         IN  IF F_lt(remaining, F_of(1))
             THEN [under |-> Append(r.under, e), over |-> r.over,
                   table |-> Append(r.table, b)]
             ELSE [under |-> r.under, over |-> Append(r.over, e),
                   table |-> Append(r.table, b)]

Pop(st) == SubSeq(st, 1, Len(st) - 1)
Top(st) == st[Len(st)]

\* mutation of alias_pair: q is taken from the over bucket
RECURSIVE alias_pair_q_high(_, _, _)
alias_pair_q_high(table, under, over) ==
    IF under = << >> \/ over = << >>
    THEN [table |-> table, under |-> under, over |-> over]
    ELSE LET low == Top(under)
             high == Top(over)
             t1 == [table EXCEPT ![low.i + 1].q = high.remain,
                                 ![low.i + 1].alias = W_of(high.i)]
             new_high_remain ==
                 F_sub(F_add(high.remain, low.remain), F_of(1))
             e == [i |-> high.i, remain |-> new_high_remain]
         IN  IF F_lt(new_high_remain, F_of(1))
             THEN alias_pair_q_high(t1, Append(Pop(under), e), Pop(over))
             ELSE alias_pair_q_high(t1, Pop(under), Append(Pop(over), e))

\* lines 101-114: while !under.is_empty() && !over.is_empty() { ... }
RECURSIVE alias_pair(_, _, _)
alias_pair(table, under, over) ==
    IF under = << >> \/ over = << >>
    THEN [table |-> table, under |-> under, over |-> over]
    ELSE LET low == Top(under)
             high == Top(over)
             t1 == [table EXCEPT ![low.i + 1].q = low.remain,
                                 ![low.i + 1].alias = W_of(high.i)]
             new_high_remain ==
                 F_sub(F_add(high.remain, low.remain), F_of(1))
             e == [i |-> high.i, remain |-> new_high_remain]
         IN  IF F_lt(new_high_remain, F_of(1))
             THEN alias_pair(t1, Append(Pop(under), e), Pop(over))
             ELSE alias_pair(t1, Pop(under), Append(Pop(over), e))

\* mutation of alias_rest: the unmatched buckets keep q = 0
alias_rest_keep_q(table, rest) == table

\* lines 116-118: the unmatched buckets always pick themselves
alias_rest(table, rest) ==
    [ k \in 1..Len(table) |->
        IF \E j \in 1..Len(rest) : rest[j].i = k - 1
        THEN [table[k] EXCEPT !.q = F_of(1)]
        ELSE table[k] ]

\* lines 81-118: the alias table of a pmf
alias_table(lights, pmf) ==
    LET init == alias_init(lights, pmf, Len(lights))
        done == alias_pair(init.table, init.under, init.over)
    IN  alias_rest(done.table, done.under \o done.over)

add_power_light_sampler(s, lights) ==
    LET pmf == light_pmf(s, lights)
        sp == set_paths(s, lights, Len(lights))
        table == alias_table(lights, pmf)
        s1 == sp.scene
        id == Id_new("LightSamplerId", "Power",
                     U_of(Len(s1.power_light_samplers)))
    IN  IF ~ sp.ok \/ id = Panic THEN Abort(s1)
        ELSE Ret([s1 EXCEPT
                    !.power_light_samplers =
                        Append(@, [ptr |-> Len(s1.power_light_sampler_data),
                                   count |-> Len(lights)]),
                    !.power_light_sampler_data = @ \o table],
                 << id >>)

(***************************************************************************)
(* Node bounds and the BVH builder (scene/shapes.rs, scene/node.rs).       *)
(***************************************************************************)
Sphere_bounds(sphere) ==
    [min |-> << -1, -1, sphere.z_min >>, max |-> << 1, 1, sphere.z_max >>]

Triangle_bounds(tri, verts) ==
    from_points([ j \in 1..3 |-> verts[tri.vertices[j] + 1].p ])

shape_bounds(s, shape) ==
    LET i == U_nat(Id_idx("ShapeId", shape)) + 1
    IN  IF Id_ty("ShapeId", shape) = "Sphere"
        THEN Sphere_bounds(s.spheres[i])
        ELSE Triangle_bounds(s.triangles[i], s.triangle_vertices)

RECURSIVE node_bounds(_, _)
node_bounds(s, node) ==
    LET ty == Id_ty("NodeId", node)
        i == U_nat(Id_idx("NodeId", node)) + 1
    IN  CASE ty = "Primitive" -> shape_bounds(s, s.primitive_nodes[i].shape)
          [] ty = "Bvh" -> [min |-> s.bvh_nodes[i].min, max |-> s.bvh_nodes[i].max]
          [] ty = "Transform" ->
                LET tn == s.transform_nodes[i]
                    c == corners(node_bounds(s, tn.object))
                IN  from_points([ k \in 1..8 |->
                                    transform_point3(tn.transform.m_inv, c[k]) ])

\* objs.iter().fold(objs[0].1.clone(), |acc, (_, bb)| acc.union(bb))
RECURSIVE fold_union(_, _)
fold_union(acc, objs) ==
    IF objs = << >> THEN acc
    ELSE fold_union(union(acc, objs[1].bb), Tail(objs))

\* mutation of total_bounds: the last object is left out of the union
total_bounds_skip_last(objs) ==
    fold_union(objs[1].bb, SubSeq(objs, 1, Len(objs) - 1))

total_bounds(objs) == fold_union(objs[1].bb, objs)

sort_key(obj, axis) == centroid(obj.bb)[axis + 1]

RemoveAt(seq, i) == SubSeq(seq, 1, i - 1) \o SubSeq(seq, i + 1, Len(seq))

\* par_sort_unstable_by_key: every ordering of the slice by key is a
\* possible result; the order of objects with equal keys is unspecified
RECURSIVE sort_outcomes(_, _)
sort_outcomes(objs, axis) ==
    IF objs = << >> THEN { << >> }
    ELSE LET least == { i \in 1..Len(objs) :
                          \A j \in 1..Len(objs) :
                              ~ F_lt(sort_key(objs[j], axis), sort_key(objs[i], axis)) }
         IN  UNION { { << objs[i] >> \o r : r \in sort_outcomes(RemoveAt(objs, i), axis) }
                     : i \in least }

\* bb when the forward loop (lines 106-110) is at index i: objs[0..i)
RECURSIVE forward_bb(_, _)
forward_bb(objs, i) ==
    IF i = 1 THEN objs[1].bb
    ELSE union(forward_bb(objs, i - 1), objs[i].bb)

\* bb when the backward loop (lines 112-116) is at index i: the last i objects
RECURSIVE backward_bb(_, _)
backward_bb(objs, i) ==
    IF i = 1 THEN objs[Len(objs)].bb
    ELSE union(backward_bb(objs, i - 1), objs[Len(objs) - i + 1].bb)

\* costs after both loops; costs[j] here is costs[j - 1] of the source:
\* the forward loop adds to costs[i - 1], the backward loop to
\* costs[len - 1 - i]
sah_costs(objs) ==
    [ j \in 1..(Len(objs) - 1) |->
        j * surface_area(forward_bb(objs, j))
        + (Len(objs) - j) * surface_area(backward_bb(objs, Len(objs) - j)) ]

\* mutation of sah_split: the last minimum is taken
sah_split_last_min(objs) ==
    LET costs == sah_costs(objs)
    IN  1 + (CHOOSE j \in 0..(Len(costs) - 1) :
               /\ \A k \in 0..(Len(costs) - 1) : costs[j + 1] <= costs[k + 1]
               /\ \A k \in (j + 1)..(Len(costs) - 1) : costs[k + 1] # costs[j + 1])

\* lines 118-123: 1 + index of the first minimum of costs (min_by_key
\* returns the first of several equal minima)
sah_split(objs) ==
    LET costs == sah_costs(objs)
    IN  1 + (CHOOSE j \in 0..(Len(costs) - 1) :
               /\ \A k \in 0..(Len(costs) - 1) : costs[j + 1] <= costs[k + 1]
               /\ \A k \in 0..(j - 1) : costs[k + 1] # costs[j + 1])

\* outcome of build_bvh: the node array, the handle returned (or Panic) and,
\* for the record, the sorted slice and the split of every internal node
BvhPanic(nodes) ==
    [nodes |-> nodes, ret |-> Panic, ok |-> FALSE, splits |-> { }]

\* mutation of bvh_reserve: two slots are pushed
bvh_reserve_twice(nodes) ==
    nodes \o << [min |-> V_ZERO, flags |-> 0, max |-> V_ZERO,
                 far_node |-> NodeId_ZERO],
               [min |-> V_ZERO, flags |-> 0, max |-> V_ZERO,
                 far_node |-> NodeId_ZERO] >>

\* lines 81-87: the slot of the node is reserved before recursing
bvh_reserve(nodes) ==
    Append(nodes, [min |-> V_ZERO, flags |-> 0, max |-> V_ZERO,
                   far_node |-> NodeId_ZERO])

\* mutation of bvh_leaf: the object's handle is not stored
bvh_leaf_no_far_node(nodes, idx, obj) ==
    [nodes EXCEPT ![idx + 1] =
        [min |-> obj.bb.min, flags |-> 0, max |-> obj.bb.max,
         far_node |-> NodeId_ZERO]]

\* lines 89-93: the wrapper node of a single object
bvh_leaf(nodes, idx, obj) ==
    [nodes EXCEPT ![idx + 1] =
        [min |-> obj.bb.min, flags |-> 0, max |-> obj.bb.max,
         far_node |-> obj.id]]

RECURSIVE build_bvh(_, _)

\* mutation of build_children: the right half is built first
build_children_right_first(nodes, idx, left, right) ==
    UNION { IF ~ R.ok THEN { BvhPanic(R.nodes) }
            ELSE UNION { IF ~ L.ok THEN { BvhPanic(L.nodes) }
                         ELSE IF U_of(idx + 1) # Id_idx("NodeId", L.ret)
                              THEN { BvhPanic(L.nodes) }
                         ELSE { [nodes |-> L.nodes, ret |-> R.ret, ok |-> TRUE,
                                 splits |-> L.splits \cup R.splits] }
                         : L \in build_bvh(R.nodes, left) }
            : R \in build_bvh(nodes, right) }

\* lines 127-129: left subtree, the assertion on its index, right subtree;
\* ret is right_node
build_children(nodes, idx, left, right) ==
    UNION { IF ~ L.ok THEN { BvhPanic(L.nodes) }
            ELSE IF U_of(idx + 1) # Id_idx("NodeId", L.ret)
                 THEN { BvhPanic(L.nodes) }
            ELSE { IF ~ R.ok THEN BvhPanic(R.nodes)
                   ELSE [nodes |-> R.nodes, ret |-> R.ret, ok |-> TRUE,
                         splits |-> L.splits \cup R.splits]
                   : R \in build_bvh(L.nodes, right) }
            : L \in build_bvh(nodes, left) }

\* lines 95-135 for one result of the sort
bvh_split(nodes, idx, objs, sorted, axis) ==
    LET bounds == total_bounds(objs)
        split == sah_split(sorted)
        left == SubSeq(sorted, 1, split)
        right == SubSeq(sorted, split + 1, Len(sorted))
    IN  { IF ~ c.ok THEN c
          ELSE LET id == Id_new("NodeId", "Bvh", U_of(idx))
               IN  IF id = Panic THEN BvhPanic(c.nodes)
                   ELSE [nodes |-> [c.nodes EXCEPT ![idx + 1] =
                                      [min |-> bounds.min, flags |-> 2^axis,
                                       max |-> bounds.max, far_node |-> c.ret]],
                         ret |-> id, ok |-> TRUE,
                         splits |-> c.splits
                                    \cup { [slice |-> sorted, split |-> split] }]
          : c \in build_children(nodes, idx, left, right) }

\* Scene::build_bvh on the node array; the set of its possible outcomes
build_bvh(nodes, objs) ==
    IF objs = << >> THEN { BvhPanic(nodes) }
    ELSE LET idx == Len(nodes)
             nodes1 == bvh_reserve(nodes)
         IN  IF Len(objs) = 1
             THEN LET id == Id_new("NodeId", "Bvh", U_of(idx))
                  IN  IF id = Panic THEN { BvhPanic(nodes1) }
                      ELSE { [nodes |-> bvh_leaf(nodes1, idx, objs[1]),
                              ret |-> id, ok |-> TRUE, splits |-> { }] }
             ELSE LET axis == max_position(size(total_bounds(objs)))
                  IN  UNION { bvh_split(nodes1, idx, objs, sorted, axis)
                              : sorted \in sort_outcomes(objs, axis) }

\* Scene::add_bvh: the set of possible outcomes
add_bvh(s, nodes) ==
    LET bounded_objects ==
            [ i \in 1..Len(nodes) |-> [id |-> nodes[i], bb |-> node_bounds(s, nodes[i])] ]
    IN  { [scene |-> [s EXCEPT !.bvh_nodes = o.nodes],
           rets |-> IF o.ok THEN << o.ret >> ELSE << >>,
           ok |-> o.ok, splits |-> o.splits]
          : o \in build_bvh(s.bvh_nodes, bounded_objects) }

(***************************************************************************)
(* Construction: Scene::new and the first lines of load_pbrt_scene.        *)
(***************************************************************************)
\* SpectrumData: the built-in tables (abstracted to their names) and one
\* measured index of refraction with two samples
Builtin ==
    [cie_x |-> [data |-> "cie_x"], cie_y |-> [data |-> "cie_y"],
     cie_z |-> [data |-> "cie_z"], d65 |-> [data |-> "d65"],
     iors |-> << [name |-> "metal-Cu-eta", data |-> << << 400, 1 >>, << 700, 2 >> >>] >>]

RECURSIVE add_iors(_, _)
add_iors(s, iors) ==
    IF iors = << >> THEN s
    ELSE LET r == add_piecewise_linear_spectrum(s, iors[1].data)
         IN  add_iors([r.scene EXCEPT !.named_spectra =
                          @ \cup { << iors[1].name, r.rets[1] >> }],
                      Tail(iors))

\* Scene::new
Scene_new(builtin) ==
    LET s0 == [Scene_default EXCEPT !.infinite_lights = << LightId_ZERO >>]
        s1 == add_table_spectrum(s0, builtin.cie_x).scene
        s2 == add_table_spectrum(s1, builtin.cie_y).scene
        s3 == add_table_spectrum(s2, builtin.cie_z).scene
        r4 == add_table_spectrum(s3, builtin.d65)
        s4 == [r4.scene EXCEPT !.named_spectra =
                  @ \cup { << "stdillum-D65", r4.rets[1] >> }]
    IN  add_iors(s4, builtin.iors)

\* one entry of the log of issued handles
Entry(kind, array, id, rec) ==
    [kind |-> kind, array |-> array, id |-> id, rec |-> rec]

NewScene == Scene_new(Builtin)

\* load_pbrt_scene, lines 24-27: the error spectrum, texture and material
LoaderPreamble ==
    With(add_rgb_albedo_spectrum(NewScene, << 1, 0, 1 >>), LAMBDA r1 :
    With(add_constant_spectrum_texture(r1.scene, r1.rets[1]), LAMBDA r2 :
    With(add_diffuse_material(r2.scene, r2.rets[1], None), LAMBDA r3 :
        [scene |-> r3.scene,
         issued |->
            << Entry("SpectrumId", "rgb_albedo_spectra", r1.rets[1],
                     [rgb |-> << 1, 0, 1 >>]),
               Entry("TextureId", "constant_spectrum_tex", r2.rets[1],
                     [spectrum |-> r1.rets[1]]),
               Entry("MaterialId", "diffuse_mat", r3.rets[1],
                     [texture |-> r2.rets[1]]) >>])))

UnitSphere == [z_min |-> -1, z_max |-> 1, flip_normal |-> 0]

\* the arena once the loader has created the primitive of one sphere shape
\* (SceneBuilder::sphere: the shape, then the primitive; no area light)
LoaderOneSphere ==
    With(LoaderPreamble, LAMBDA p :
    With(add_sphere(p.scene, UnitSphere), LAMBDA r1 :
    With([shape |-> r1.rets[1], material |-> p.issued[3].id,
          light |-> LightId_ZERO, alpha |-> p.issued[2].id], LAMBDA prim :
    With(add_primitive(r1.scene, prim), LAMBDA r2 :
        [scene |-> r2.scene,
         issued |-> p.issued \o
            << Entry("ShapeId", "spheres", r1.rets[1], UnitSphere),
               Entry("NodeId", "primitive_nodes", r2.rets[1], prim) >>]))))

NoCall == [op |-> "new", n |-> 0, rets |-> << >>, ok |-> TRUE,
           nodes |-> << >>, splits |-> { }]

NoHandleCall == [pc |-> "idle", kind |-> "ShapeId", variant |-> "Sphere",
                 index |-> U_of(0), result |-> Panic,
                 ty |-> "invalid", idx |-> U_of(0)]

(***************************************************************************)
(* Actions: one per add_* call.  A call that panics aborts the process:    *)
(* no further call is made.                                                *)
(***************************************************************************)
IssuedIds(kind) ==
    { issued[i].id : i \in { j \in 1..Len(issued) : issued[j].kind = kind } }

\* the issued NodeId handles of the given variants, in the order of issue
RECURSIVE NodesIn(_, _)
NodesIn(log, variants) ==
    IF log = << >> THEN << >>
    ELSE IF log[1].kind = "NodeId" /\ Id_ty("NodeId", log[1].id) \in variants
         THEN << log[1].id >> \o NodesIn(Tail(log), variants)
         ELSE NodesIn(Tail(log), variants)

\* the subsequence of seq at the positions in keep
RECURSIVE Pick(_, _)
Pick(seq, keep) ==
    IF seq = << >> THEN << >>
    ELSE LET front == Pick(SubSeq(seq, 1, Len(seq) - 1), keep)
         IN  IF Len(seq) \in keep THEN Append(front, seq[Len(seq)]) ELSE front

SubSeqs(seq, maxLen) ==
    { Pick(seq, keep) : keep \in { k \in SUBSET (1..Len(seq)) :
                                     k # { } /\ Cardinality(k) <= maxLen } }

\* the sequences of distinct elements of set, of length 1..maxLen
RECURSIVE Arrangements(_, _)
Arrangements(set, maxLen) ==
    IF maxLen = 0 \/ set = { } THEN { }
    ELSE { << x >> : x \in set }
         \cup UNION { { << x >> \o r : r \in Arrangements(set \ {x}, maxLen - 1) }
                      : x \in set }

Commit(op, r, entries, nodes, splits) ==
    /\ scene' = r.scene
    /\ last' = [op |-> op, n |-> last.n + 1, rets |-> r.rets, ok |-> r.ok,
                nodes |-> nodes, splits |-> splits]
    /\ issued' = IF r.ok THEN issued \o entries ELSE issued
    /\ UNCHANGED << hcall, gvars, builder >>

\* a call that returns one handle to a record of `array`
Commit1(op, kind, array, r, rec) ==
    Commit(op, r, IF r.ok THEN << Entry(kind, array, r.rets[1], rec) >> ELSE << >>,
           << >>, { })

Do_add_sphere(spheres) ==
    \E sphere \in spheres :
        /\ Commit1("add_sphere", "ShapeId", "spheres",
                   add_sphere(scene, sphere), sphere)
        /\ UNCHANGED light_powers

Do_add_triangles(vertLists, triLists) ==
    \E verts \in vertLists, tris \in triLists :
        LET r == add_triangles(scene, verts, tris)
            base == Len(scene.triangle_vertices)
        IN  /\ Commit("add_triangles", r,
                      IF r.ok
                      THEN [ i \in 1..Len(tris) |->
                               Entry("ShapeId", "triangles", r.rets[i],
                                     [vertices |-> [ j \in 1..3 |-> tris[i][j] + base ]]) ]
                      ELSE << >>,
                      << >>, { })
            /\ UNCHANGED light_powers

Do_add_primitive ==
    \E shape \in IssuedIds("ShapeId"), material \in IssuedIds("MaterialId"),
       alpha \in IssuedIds("TextureId"),
       light \in {LightId_ZERO}
                 \cup { l \in IssuedIds("LightId") : Id_ty("LightId", l) = "Area" } :
        LET prim == [shape |-> shape, material |-> material, light |-> light,
                     alpha |-> alpha]
        IN  /\ Commit1("add_primitive", "NodeId", "primitive_nodes",
                       add_primitive(scene, prim), prim)
            /\ UNCHANGED light_powers

Do_add_transform(transforms, variants) ==
    \E transform \in transforms :
        \E k \in 1..Len(NodesIn(issued, variants)) :
            LET node == NodesIn(issued, variants)[k]
            IN  /\ Commit1("add_transform", "NodeId", "transform_nodes",
                           add_transform(scene, transform, node),
                           [transform |-> transform, object |-> node])
                /\ UNCHANGED light_powers

Do_add_bvh(inputs) ==
    \E nodes \in inputs :
        \E r \in add_bvh(scene, nodes) :
            /\ Commit("add_bvh", r,
                      IF r.ok
                      THEN << Entry("NodeId", "bvh_nodes", r.rets[1], << >>) >>
                      ELSE << >>,
                      nodes, r.splits)
            /\ UNCHANGED light_powers

Do_add_diffuse_material ==
    \E texture \in IssuedIds("TextureId"), normal_map \in {None, Some(W_of(0))} :
        /\ Commit1("add_diffuse_material", "MaterialId", "diffuse_mat",
                   add_diffuse_material(scene, texture, normal_map),
                   [texture |-> texture])
        /\ UNCHANGED light_powers

Do_add_constant_float_texture ==
    \E value \in {1} :
        /\ Commit1("add_constant_float_texture", "TextureId", "constant_float_tex",
                   add_constant_float_texture(scene, value), [value |-> value])
        /\ UNCHANGED light_powers

Do_add_constant_spectrum ==
    \E value \in {1} :
        /\ Commit1("add_constant_spectrum", "SpectrumId", "constant_spectra",
                   add_constant_spectrum(scene, value), [value |-> value])
        /\ UNCHANGED light_powers

Do_add_piecewise_linear_spectrum ==
    \E data \in { << << 400, 1 >> >>, << << 400, 1 >>, << 700, 3 >> >> } :
        /\ Commit1("add_piecewise_linear_spectrum", "SpectrumId",
                   "piecewise_linear_spectra",
                   add_piecewise_linear_spectrum(scene, data),
                   [entries |-> Len(data)])
        /\ UNCHANGED light_powers

Do_add_image ==
    \E loaded \in {None, Some([width |-> 2, height |-> 1, data |-> << 1, 3 >>])} :
        LET r == add_image(scene, loaded)
        IN  /\ Commit("add_image", [scene |-> r.scene, rets |-> << >>, ok |-> TRUE],
                      << >>, << >>, { })
            /\ UNCHANGED light_powers

Do_add_uniform_light ==
    \E spectrum \in IssuedIds("SpectrumId") :
        /\ Commit1("add_uniform_light", "LightId", "uniform_lights",
                   add_uniform_light(scene, spectrum), [spectrum |-> spectrum])
        /\ UNCHANGED light_powers

Identity == [sc |-> << 1, 1, 1 >>, t |-> << 0, 0, 0 >>]

Do_add_image_light ==
    \E image \in 0..(Len(scene.images) - 1) :
        /\ Commit1("add_image_light", "LightId", "image_lights",
                   add_image_light(scene, Identity, image, 1),
                   [image |-> image, scale |-> 1])
        /\ UNCHANGED light_powers

\* the power of the new light is what light_power will report for it
Do_add_area_light(powers) ==
    \E shape \in IssuedIds("ShapeId"), spectrum \in IssuedIds("SpectrumId"),
       alpha \in IssuedIds("TextureId"), power \in powers :
        LET r == add_area_light(scene, shape, spectrum, alpha)
        IN  /\ Commit1("add_area_light", "LightId", "area_lights", r,
                       [shape |-> shape, spectrum |-> spectrum, alpha |-> alpha])
            /\ light_powers' = IF r.ok THEN light_powers @@ (r.rets[1] :> power)
                               ELSE light_powers

Do_add_uniform_light_sampler(maxLen) ==
    \E lights \in Arrangements(IssuedIds("LightId"), maxLen) :
        /\ Commit1("add_uniform_light_sampler", "LightSamplerId",
                   "uniform_light_samplers",
                   add_uniform_light_sampler(scene, lights),
                   [count |-> Len(lights)])
        /\ UNCHANGED light_powers

Do_add_power_light_sampler(lists) ==
    \E lights \in lists :
        /\ Commit("add_power_light_sampler",
                  add_power_light_sampler(scene, lights),
                  IF add_power_light_sampler(scene, lights).ok
                  THEN << Entry("LightSamplerId", "power_light_samplers",
                                add_power_light_sampler(scene, lights).rets[1],
                                [count |-> Len(lights)]) >>
                  ELSE << >>,
                  lights, { })
        /\ UNCHANGED light_powers

(***************************************************************************)
(* The arena specification: any MaxCalls add_* calls after the loader's   *)
(* first lines.                                                            *)
(***************************************************************************)
Translate(t) ==
    [m |-> [sc |-> << 1, 1, 1 >>, t |-> << -t[1], -t[2], -t[3] >>],
     m_inv |-> [sc |-> << 1, 1, 1 >>, t |-> t]]

TriVerts ==
    << [p |-> << 0, 0, 0 >>, u |-> 0, n |-> << 0, 0, 1 >>, v |-> 0],
       [p |-> << 2, 0, 0 >>, u |-> 1, n |-> << 0, 0, 1 >>, v |-> 0],
       [p |-> << 0, 4, 0 >>, u |-> 0, n |-> << 0, 0, 1 >>, v |-> 1] >>

Init ==
    \E start \in {LoaderPreamble} :
        /\ scene = start.scene
        /\ issued = start.issued
        /\ light_powers = << >>
        /\ last = NoCall
        /\ hcall = NoHandleCall
        /\ GuideUnused
        /\ builder = NoBuilder

\* the process is alive (no earlier call panicked) and has calls left
Calling == last.ok /\ last.n < MaxCalls

AddSphere ==
    Calling /\ Do_add_sphere({UnitSphere})
AddTriangles ==
    Calling /\ Do_add_triangles({TriVerts}, { << << 0, 1, 2 >> >>, << << 0, 1, 2 >>, << 2, 1, 0 >> >> })
AddPrimitive ==
    Calling /\ Do_add_primitive
AddTransform ==
    Calling /\ Do_add_transform({Translate(<< 2, 0, 0 >>)}, {"Primitive", "Transform", "Bvh"})
AddBvh ==
    Calling /\ Do_add_bvh(SubSeqs(NodesIn(issued, {"Primitive", "Transform", "Bvh"}), 2))
AddDiffuseMaterial ==
    Calling /\ Do_add_diffuse_material
AddConstantFloatTexture ==
    Calling /\ Do_add_constant_float_texture
AddConstantSpectrum ==
    Calling /\ Do_add_constant_spectrum
AddPiecewiseLinearSpectrum ==
    Calling /\ Do_add_piecewise_linear_spectrum
AddImage ==
    Calling /\ Do_add_image
AddUniformLight ==
    Calling /\ Do_add_uniform_light
AddImageLight ==
    Calling /\ Do_add_image_light
AddAreaLight ==
    Calling /\ Do_add_area_light({1})
AddUniformLightSampler ==
    Calling /\ Do_add_uniform_light_sampler(2)
AddPowerLightSampler ==
    Calling
    /\ Do_add_power_light_sampler(Arrangements(IssuedIds("LightId"), 2))

Next ==
    \/ AddSphere
    \/ AddTriangles
    \/ AddPrimitive
    \/ AddTransform
    \/ AddBvh
    \/ AddDiffuseMaterial
    \/ AddConstantFloatTexture
    \/ AddConstantSpectrum
    \/ AddPiecewiseLinearSpectrum
    \/ AddImage
    \/ AddUniformLight
    \/ AddImageLight
    \/ AddAreaLight
    \/ AddUniformLightSampler
    \/ AddPowerLightSampler

Spec == Init /\ [][Next]_vars

(***************************************************************************)
(* The BVH specification: the loader has created one sphere primitive; it  *)
(* instances it under translations, builds object BVHs over the instances, *)
(* instances those and builds the root BVH (pbrt.rs, end_object and line   *)
(* 51).                                                                    *)
(***************************************************************************)
Translations ==
    { << -2, 0, 0 >>, << 2, 0, 0 >>, << 0, 2, 0 >>, << 6, 0, 0 >> }

InitBvh ==
    \E start \in {LoaderOneSphere} :
        /\ scene = start.scene
        /\ issued = start.issued
        /\ light_powers = << >>
        /\ last = NoCall
        /\ hcall = NoHandleCall
        /\ GuideUnused
        /\ builder = NoBuilder

CallingBvh == last.ok /\ last.n < MaxObjs

BvhAddTransform ==
    /\ CallingBvh
    /\ Do_add_transform({ Translate(t) : t \in Translations }, {"Primitive", "Bvh"})

BvhAddBvh ==
    /\ CallingBvh
    /\ Do_add_bvh(SubSeqs(NodesIn(issued, {"Primitive", "Transform"}), MaxObjs))

NextBvh ==
    \/ BvhAddTransform
    \/ BvhAddBvh

SpecBvh == InitBvh /\ [][NextBvh]_vars

(***************************************************************************)
(* The light specification: lights are added, then the power light        *)
(* sampler is built over a list of them (pbrt.rs line 54).                 *)
(***************************************************************************)
Powers == 0..3

InitLights ==
    \E start \in {LoaderOneSphere} :
        /\ scene = start.scene
        /\ issued = start.issued
        /\ light_powers = << >>
        /\ last = NoCall
        /\ hcall = NoHandleCall
        /\ GuideUnused
        /\ builder = NoBuilder

CallingLights == last.ok /\ last.n < MaxLights + 1

LightsAddUniformLight == CallingLights /\ Do_add_uniform_light

LightsAddAreaLight == CallingLights /\ Do_add_area_light(Powers)

\* the loader passes every light of the scene, which may be none
LightLists == Arrangements(IssuedIds("LightId"), MaxLights) \cup { << >> }

LightsAddPowerLightSampler ==
    CallingLights /\ Do_add_power_light_sampler(LightLists)

NextLights ==
    \/ LightsAddUniformLight
    \/ LightsAddAreaLight
    \/ LightsAddPowerLightSampler

SpecLights == InitLights /\ [][NextLights]_vars

(***************************************************************************)
(* The handle specification: new(ty, idx) of any kind, then ty() and       *)
(* idx() of the handle it returned.                                        *)
(***************************************************************************)
IndexInputs ==
    { << e, h, l >> : e \in {0, 1},
                      h \in {0, 1, 8191, 8192, 16383, 16384, 32767, 32768, 65535},
                      l \in {0, 1, 65535} }

InitHandle ==
    /\ scene = Scene_default
    /\ issued = << >>
    /\ light_powers = << >>
    /\ last = NoCall
    /\ hcall = NoHandleCall
    /\ GuideUnused
    /\ builder = NoBuilder

HandleNew ==
    /\ hcall.pc = "idle"
    /\ \E kind \in Kinds :
        \E variant \in VariantSet(kind), index \in IndexInputs :
            LET result == Id_new(kind, variant, index)
            IN  hcall' = [pc |-> IF result = Panic THEN "panicked" ELSE "made",
                          kind |-> kind, variant |-> variant, index |-> index,
                          result |-> result, ty |-> "invalid", idx |-> U_of(0)]
    /\ UNCHANGED << scene, light_powers, last, issued, gvars, builder >>

HandleDecode ==
    /\ hcall.pc = "made"
    /\ hcall' = [hcall EXCEPT !.pc = "decoded",
                              !.ty = Id_ty(hcall.kind, hcall.result),
                              !.idx = Id_idx(hcall.kind, hcall.result)]
    /\ UNCHANGED << scene, light_powers, last, issued, gvars, builder >>

NextHandle ==
    \/ HandleNew
    \/ HandleDecode

SpecHandle == InitHandle /\ [][NextHandle]_vars

(***************************************************************************)
(* The adaptive path guide (main.rs): the BSP over the scene, whose        *)
(* leaves carry a guide and a training quad-tree, and its refinement.      *)
(* A BspNode is [is_leaf, left, right, count]; a quad-tree node is four    *)
(* DirTreeNode records [flux, child]; left, right and child are u32.       *)
(* new_nodes and new_dir_tree carry the Vec being built (vec) and, for     *)
(* the properties, the nodes descended into, the flux ratio handed to each *)
(* child with the index returned for it, and the leaves split.             *)
(***************************************************************************)
LEAF_ENERGY_PORTION == F_norm(1, 100)
GuidedState_C == 32000
INITIAL_SAMPLES == 4
MAX_DEPTH == 20

\* `x as usize` of a u32 that indexes a Vec of length len, or len if it is
\* out of bounds
IndexIn(w, len) ==
    IF w[1] < Limb \div 2 /\ w[1] * Limb + w[2] < len
    THEN w[1] * Limb + w[2]
    ELSE len

BspNode(is_leaf, left, right, count) ==
    [is_leaf |-> is_leaf, left |-> left, right |-> right, count |-> count]

DirTreeNode(flux, child) == [flux |-> flux, child |-> child]

NoNodes == [vec |-> << >>, descents |-> { }, expansions |-> { }, splits |-> { }]

\* mutation of quad_children: a node without flux gives each child the whole
quad_children_zero_flux_whole(existing_nodes, node) ==
    IF node = U32_MAX
    THEN [ k \in 1..4 |-> [child |-> U32_MAX, portion |-> F_norm(1, 4)] ]
    ELSE LET q == existing_nodes[IndexIn(node, Len(existing_nodes)) + 1]
             total_flux == F_sum([ k \in 1..4 |-> q[k].flux ])
         IN  IF total_flux = F_of(0)
             THEN [ k \in 1..4 |-> [child |-> U32_MAX, portion |-> F_of(1)] ]
             ELSE [ k \in 1..4 |->
                      [child |-> q[k].child,
                       portion |-> F_div(q[k].flux, total_flux)] ]

\* mutation of quad_children: a total flux that is not finite is taken as
\* no flux at all
quad_children_fallback(existing_nodes, node) ==
    IF node = U32_MAX
    THEN [ k \in 1..4 |-> [child |-> U32_MAX, portion |-> F_norm(1, 4)] ]
    ELSE LET q == existing_nodes[IndexIn(node, Len(existing_nodes)) + 1]
             total_flux == F_sum([ k \in 1..4 |-> q[k].flux ])
         IN  IF total_flux = F_of(0) \/ ~ F_is_finite(total_flux)
             THEN [ k \in 1..4 |-> [child |-> U32_MAX, portion |-> F_norm(1, 4)] ]
             ELSE [ k \in 1..4 |->
                      [child |-> q[k].child,
                       portion |-> F_div(q[k].flux, total_flux)] ]

\* mutation of quad_children: the portions are taken of half the total flux
quad_children_half_total(existing_nodes, node) ==
    IF node = U32_MAX
    THEN [ k \in 1..4 |-> [child |-> U32_MAX, portion |-> F_norm(1, 4)] ]
    ELSE LET q == existing_nodes[IndexIn(node, Len(existing_nodes)) + 1]
             total_flux == F_sum([ k \in 1..4 |-> q[k].flux ])
         IN  IF total_flux = F_of(0)
             THEN [ k \in 1..4 |-> [child |-> U32_MAX, portion |-> F_norm(1, 4)] ]
             ELSE [ k \in 1..4 |->
                      [child |-> q[k].child,
                       portion |-> F_div(F_mul(F_of(2), q[k].flux), total_flux)] ]

\* lines 786-796: the children of a node and their portions of its flux
quad_children(existing_nodes, node) ==
    IF node = U32_MAX
    THEN [ k \in 1..4 |-> [child |-> U32_MAX, portion |-> F_norm(1, 4)] ]
    ELSE LET q == existing_nodes[IndexIn(node, Len(existing_nodes)) + 1]
             total_flux == F_sum([ k \in 1..4 |-> q[k].flux ])
         IN  IF total_flux = F_of(0)
             THEN [ k \in 1..4 |-> [child |-> U32_MAX, portion |-> F_norm(1, 4)] ]
             ELSE [ k \in 1..4 |->
                      [child |-> q[k].child,
                       portion |-> F_div(q[k].flux, total_flux)] ]

RECURSIVE refine_quadtree_rec(_, _, _, _, _)

\* the log entry of a node that refine_quadtree works on: its accumulators,
\* its ratio and depth, and the portions of its children
descended(new_nodes, existing_nodes, node, flux_ratio, depth) ==
    [new_nodes EXCEPT !.descents = @ \cup
        {[node |-> node,
          flux |-> IF node = U32_MAX THEN << >>
                   ELSE [ k \in 1..4 |->
                            existing_nodes[IndexIn(node, Len(existing_nodes)) + 1][k].flux ],
          flux_ratio |-> flux_ratio,
          depth |-> depth,
          portions |-> [ k \in 1..4 |-> quad_children(existing_nodes, node)[k].portion ]]}]

\* the log entry of a child slot: the ratio of the node, the ratio of the
\* child, its depth and the index the recursive call returned for it (c.id)
expanded(c, existing_nodes, node, flux_ratio, depth, k) ==
    [c.new_nodes EXCEPT !.expansions = @ \cup
        {[parent |-> flux_ratio,
          child |-> F_mul(flux_ratio, quad_children(existing_nodes, node)[k].portion),
          depth |-> depth + 1,
          id |-> c.id]}]

\* mutation of pushed: the index returned is the length after the push
pushed_length_after(new_nodes, ids) ==
    [ok |-> TRUE,
     new_nodes |-> [new_nodes EXCEPT
                      !.vec = Append(@, [ k \in 1..4 |-> DirTreeNode(F_of(0), ids[k]) ])],
     id |-> W_of(Len(new_nodes.vec) + 1)]

\* lines 811-813: the push of the new node and its index
pushed(new_nodes, ids) ==
    [ok |-> TRUE,
     new_nodes |-> [new_nodes EXCEPT
                      !.vec = Append(@, [ k \in 1..4 |-> DirTreeNode(F_of(0), ids[k]) ])],
     id |-> W_of(Len(new_nodes.vec))]

\* mutation of refine_quadtree_rec: the depth cap lets one more level through
refine_quadtree_deeper(new_nodes, existing_nodes, node, flux_ratio, depth) ==
    CASE ~ (F_le(flux_ratio, F_of(1)) /\ F_le(F_of(0), flux_ratio))
           -> {[ok |-> FALSE, new_nodes |-> new_nodes, id |-> U32_MAX]}
      [] /\ F_le(flux_ratio, F_of(1)) /\ F_le(F_of(0), flux_ratio)
         /\ (F_lt(flux_ratio, LEAF_ENERGY_PORTION) \/ depth > MAX_DEPTH)
           -> {[ok |-> TRUE, new_nodes |-> new_nodes, id |-> U32_MAX]}
      [] /\ F_le(LEAF_ENERGY_PORTION, flux_ratio) /\ F_le(flux_ratio, F_of(1))
         /\ ~ (depth > MAX_DEPTH)
         /\ node # U32_MAX
         /\ IndexIn(node, Len(existing_nodes)) = Len(existing_nodes)
           -> {[ok |-> FALSE, new_nodes |-> new_nodes, id |-> U32_MAX]}
      [] OTHER ->
         UNION {
           IF ~ c1.ok
           THEN {[c1 EXCEPT !.new_nodes =
                    descended(@, existing_nodes, node, flux_ratio, depth)]}
           ELSE UNION {
           IF ~ c2.ok THEN {c2} ELSE UNION {
           IF ~ c3.ok THEN {c3} ELSE UNION {
           IF ~ c4.ok THEN {c4}
           ELSE {pushed(expanded(c4, existing_nodes, node, flux_ratio, depth, 4),
                        << c1.id, c2.id, c3.id, c4.id >>)}
           : c4 \in IF ~ F_is_finite(quad_children(existing_nodes, node)[4].portion)
                     THEN {[ok |-> FALSE, id |-> U32_MAX, new_nodes |-> expanded(c3, existing_nodes, node, flux_ratio, depth, 3)]}
                     ELSE refine_quadtree_rec(
                              expanded(c3, existing_nodes, node, flux_ratio, depth, 3), existing_nodes,
                              quad_children(existing_nodes, node)[4].child,
                              F_mul(flux_ratio, quad_children(existing_nodes, node)[4].portion),
                              depth + 1) }
           : c3 \in IF ~ F_is_finite(quad_children(existing_nodes, node)[3].portion)
                     THEN {[ok |-> FALSE, id |-> U32_MAX, new_nodes |-> expanded(c2, existing_nodes, node, flux_ratio, depth, 2)]}
                     ELSE refine_quadtree_rec(
                              expanded(c2, existing_nodes, node, flux_ratio, depth, 2), existing_nodes,
                              quad_children(existing_nodes, node)[3].child,
                              F_mul(flux_ratio, quad_children(existing_nodes, node)[3].portion),
                              depth + 1) }
           : c2 \in IF ~ F_is_finite(quad_children(existing_nodes, node)[2].portion)
                     THEN {[ok |-> FALSE, id |-> U32_MAX, new_nodes |-> descended(expanded(c1, existing_nodes, node, flux_ratio, depth, 1), existing_nodes, node, flux_ratio, depth)]}
                     ELSE refine_quadtree_rec(
                              descended(expanded(c1, existing_nodes, node, flux_ratio, depth, 1), existing_nodes, node, flux_ratio, depth), existing_nodes,
                              quad_children(existing_nodes, node)[2].child,
                              F_mul(flux_ratio, quad_children(existing_nodes, node)[2].portion),
                              depth + 1) }
           : c1 \in IF ~ F_is_finite(quad_children(existing_nodes, node)[1].portion)
                     THEN {[ok |-> FALSE, id |-> U32_MAX, new_nodes |-> new_nodes]}
                     ELSE refine_quadtree_rec(
                              new_nodes, existing_nodes,
                              quad_children(existing_nodes, node)[1].child,
                              F_mul(flux_ratio, quad_children(existing_nodes, node)[1].portion),
                              depth + 1) }

\* lines 774-815, as the set holding the one result of the call: the Vec and
\* the logs, the index returned and whether the call returned at all (ok) or
\* panicked.  c1..c4 are the results of the four calls of children.map
\* (lines 798-809), each made on the Vec the one before left, after the
\* assertion on its portion; a call that panics ends the whole.  The node is
\* logged once its first child is back, the child slots as their calls
\* return.
refine_quadtree_rec(new_nodes, existing_nodes, node, flux_ratio, depth) ==
    CASE ~ (F_le(flux_ratio, F_of(1)) /\ F_le(F_of(0), flux_ratio))
           -> {[ok |-> FALSE, new_nodes |-> new_nodes, id |-> U32_MAX]}
      [] /\ F_le(flux_ratio, F_of(1)) /\ F_le(F_of(0), flux_ratio)
         /\ (F_lt(flux_ratio, LEAF_ENERGY_PORTION) \/ depth >= MAX_DEPTH)
           -> {[ok |-> TRUE, new_nodes |-> new_nodes, id |-> U32_MAX]}
      [] /\ F_le(LEAF_ENERGY_PORTION, flux_ratio) /\ F_le(flux_ratio, F_of(1))
         /\ ~ (depth >= MAX_DEPTH)
         /\ node # U32_MAX
         /\ IndexIn(node, Len(existing_nodes)) = Len(existing_nodes)
           -> {[ok |-> FALSE, new_nodes |-> new_nodes, id |-> U32_MAX]}
      [] OTHER ->
         UNION {
           IF ~ c1.ok
           THEN {[c1 EXCEPT !.new_nodes =
                    descended(@, existing_nodes, node, flux_ratio, depth)]}
           ELSE UNION {
           IF ~ c2.ok THEN {c2} ELSE UNION {
           IF ~ c3.ok THEN {c3} ELSE UNION {
           IF ~ c4.ok THEN {c4}
           ELSE {pushed(expanded(c4, existing_nodes, node, flux_ratio, depth, 4),
                        << c1.id, c2.id, c3.id, c4.id >>)}
           : c4 \in IF ~ F_is_finite(quad_children(existing_nodes, node)[4].portion)
                     THEN {[ok |-> FALSE, id |-> U32_MAX, new_nodes |-> expanded(c3, existing_nodes, node, flux_ratio, depth, 3)]}
                     ELSE refine_quadtree_rec(
                              expanded(c3, existing_nodes, node, flux_ratio, depth, 3), existing_nodes,
                              quad_children(existing_nodes, node)[4].child,
                              F_mul(flux_ratio, quad_children(existing_nodes, node)[4].portion),
                              depth + 1) }
           : c3 \in IF ~ F_is_finite(quad_children(existing_nodes, node)[3].portion)
                     THEN {[ok |-> FALSE, id |-> U32_MAX, new_nodes |-> expanded(c2, existing_nodes, node, flux_ratio, depth, 2)]}
                     ELSE refine_quadtree_rec(
                              expanded(c2, existing_nodes, node, flux_ratio, depth, 2), existing_nodes,
                              quad_children(existing_nodes, node)[3].child,
                              F_mul(flux_ratio, quad_children(existing_nodes, node)[3].portion),
                              depth + 1) }
           : c2 \in IF ~ F_is_finite(quad_children(existing_nodes, node)[2].portion)
                     THEN {[ok |-> FALSE, id |-> U32_MAX, new_nodes |-> descended(expanded(c1, existing_nodes, node, flux_ratio, depth, 1), existing_nodes, node, flux_ratio, depth)]}
                     ELSE refine_quadtree_rec(
                              descended(expanded(c1, existing_nodes, node, flux_ratio, depth, 1), existing_nodes, node, flux_ratio, depth), existing_nodes,
                              quad_children(existing_nodes, node)[2].child,
                              F_mul(flux_ratio, quad_children(existing_nodes, node)[2].portion),
                              depth + 1) }
           : c1 \in IF ~ F_is_finite(quad_children(existing_nodes, node)[1].portion)
                     THEN {[ok |-> FALSE, id |-> U32_MAX, new_nodes |-> new_nodes]}
                     ELSE refine_quadtree_rec(
                              new_nodes, existing_nodes,
                              quad_children(existing_nodes, node)[1].child,
                              F_mul(flux_ratio, quad_children(existing_nodes, node)[1].portion),
                              depth + 1) }

\* GuidedState::refine_quadtree
refine_quadtree(new_nodes, existing_nodes, node, flux_ratio, depth) ==
    CHOOSE made \in refine_quadtree_rec(new_nodes, existing_nodes, node,
                                        flux_ratio, depth) : TRUE

\* mutation of bsp_promote: the visit count of the leaf is kept
bsp_promote_keep_count(bsp, dir_tree, new_dir_tree, node) ==
    LET n == bsp[node + 1]
        r == refine_quadtree(new_dir_tree, dir_tree, n.right, F_of(1), 0)
    IN  [ok |-> r.ok,
         bsp |-> IF r.ok
                 THEN [bsp EXCEPT ![node + 1] = BspNode(n.is_leaf, n.right, r.id, n.count)]
                 ELSE bsp,
         new_dir_tree |-> r.new_nodes]

\* mutation of bsp_promote: the guide index of the leaf is kept
bsp_promote_keep_guide(bsp, dir_tree, new_dir_tree, node) ==
    LET n == bsp[node + 1]
        r == refine_quadtree(new_dir_tree, dir_tree, n.right, F_of(1), 0)
    IN  [ok |-> r.ok,
         bsp |-> IF r.ok
                 THEN [bsp EXCEPT ![node + 1] = BspNode(n.is_leaf, n.left, r.id, 0)]
                 ELSE bsp,
         new_dir_tree |-> r.new_nodes]

\* lines 860-862: a leaf that is not split
bsp_promote(bsp, dir_tree, new_dir_tree, node) ==
    LET n == bsp[node + 1]
        r == refine_quadtree(new_dir_tree, dir_tree, n.right, F_of(1), 0)
    IN  [ok |-> r.ok,
         bsp |-> IF r.ok
                 THEN [bsp EXCEPT ![node + 1] = BspNode(n.is_leaf, n.right, r.id, 0)]
                 ELSE bsp,
         new_dir_tree |-> r.new_nodes]

\* mutation of bsp_split: the new leaves carry the two indices exchanged
bsp_split_exchanged(bsp, new_dir_tree, node) ==
    LET bsp_len == Len(bsp)
        n == bsp[node + 1]
        leaf == BspNode(1, n.right, n.left, n.count \div 2)
    IN  [bsp |-> [bsp EXCEPT ![node + 1] =
                     BspNode(0, W_of(bsp_len), W_of(bsp_len + 1), n.count)]
                 \o << leaf, leaf >>,
         new_dir_tree |-> [new_dir_tree EXCEPT !.splits = @ \cup
                             {[node |-> node, parent |-> n,
                               left |-> bsp_len, right |-> bsp_len + 1,
                               made |-> << leaf, leaf >>]}]]

\* lines 835-855: the leaf becomes an internal node over two new leaves
bsp_split(bsp, new_dir_tree, node) ==
    LET bsp_len == Len(bsp)
        n == bsp[node + 1]
        guide_dt == n.left
        train_dt == n.right
        count == n.count \div 2
        leaf == BspNode(1, guide_dt, train_dt, count)
    IN  [bsp |-> [bsp EXCEPT ![node + 1] =
                     BspNode(0, W_of(bsp_len), W_of(bsp_len + 1), n.count)]
                 \o << leaf, leaf >>,
         new_dir_tree |-> [new_dir_tree EXCEPT !.splits = @ \cup
                             {[node |-> node, parent |-> n,
                               left |-> bsp_len, right |-> bsp_len + 1,
                               made |-> << leaf, leaf >>]}]]

\* lines 817-863.  ok is FALSE when the call panicked.
RECURSIVE refine_bsp(_, _, _, _, _)
refine_bsp(bsp, dir_tree, new_dir_tree, split_threshold, node) ==
    IF node >= Len(bsp)
    THEN [ok |-> FALSE, bsp |-> bsp, new_dir_tree |-> new_dir_tree]
    ELSE LET n == bsp[node + 1]
         IN  IF n.is_leaf = 0
             THEN LET l == refine_bsp(bsp, dir_tree, new_dir_tree, split_threshold,
                                      IndexIn(n.left, Len(bsp)))
                  IN  IF ~ l.ok THEN l
                      ELSE refine_bsp(l.bsp, dir_tree, l.new_dir_tree,
                                      split_threshold,
                                      IndexIn(n.right, Len(l.bsp)))
             ELSE IF n.count > split_threshold
             THEN LET s == bsp_split(bsp, new_dir_tree, node)
                      l == refine_bsp(s.bsp, dir_tree, s.new_dir_tree,
                                      split_threshold, Len(bsp))
                  IN  IF ~ l.ok THEN l
                      ELSE refine_bsp(l.bsp, dir_tree, l.new_dir_tree,
                                      split_threshold, Len(bsp) + 1)
             ELSE bsp_promote(bsp, dir_tree, new_dir_tree, node)

(***************************************************************************)
(* The device (wgpu): it creates buffers and bind groups, each a new       *)
(* object, and runs the submissions of its queue in the order submitted.   *)
(* device.created counts the objects, device.queue holds the submissions   *)
(* not yet completed, device.submitted counts the calls of queue.submit,   *)
(* device.bsp and device.dir_tree are what read_buffer has copied back.    *)
(***************************************************************************)
\* device.create_buffer_init(contents)
create_buffer_init(dev, contents) ==
    [buffer |-> [id |-> dev.created, data |-> contents],
     device |-> [dev EXCEPT !.created = @ + 1]]

\* device.create_bind_group of the path guide: bindings 0, 1 and 2
create_bind_group(dev, bsp, guide, train) ==
    [bg |-> [id |-> dev.created, bsp |-> bsp.id, guide |-> guide.id,
             train |-> train.id],
     device |-> [dev EXCEPT !.created = @ + 1]]

\* queue.submit: the submission index returned is device.submitted
submit(dev, kind, bg) ==
    [dev EXCEPT !.submitted = @ + 1,
                !.queue = Append(@, [index |-> dev.submitted + 1,
                                     kind |-> kind, bg |-> bg])]

\* mutation of poll_wait_indefinitely: the call returns at once
poll_no_wait(dev) == TRUE

\* device.poll(PollType::wait_indefinitely()) returns: nothing submitted is
\* still to be completed
poll_wait_indefinitely(dev) == dev.queue = << >>

\* device.poll(PollType::Wait { submission_index: Some(index), .. }) returns:
\* no submission up to this index is still in the queue
poll_wait(dev, index) ==
    \A k \in 1..Len(dev.queue) : dev.queue[k].index > index

\* a submission that binds no bind group of the path guide
NoBindGroup == << >>

NewDevice == [created |-> 0, submitted |-> 0, queue |-> << >>,
              bsp |-> << >>, dir_tree |-> << >>]

\* (1u32 << iter).isqrt()
isqrt(n) == CHOOSE k \in 0..n : k * k <= n /\ (k + 1) * (k + 1) > n

\* line 634
split_threshold(iter) == GuidedState_C * isqrt(2^iter)

\* mutation of should_refine: the training budget is not looked at
should_refine_ignore_budget(g, sample, time) == sample = g.next_iter

\* lines 585-587: the condition under which before_sample refines.  time
\* and the time budget are in clock ticks; the budget is 15/100 of the limit.
should_refine(g, sample, time) ==
    /\ sample = g.next_iter
    /\ sample < g.train_budget_samples
    /\ 100 * time < g.train_budget_time

\* lines 688-771.  count is the visit count of the seed leaf (8 * 8 at
\* line 693); train_budget_time is held as 100 times its value, 15 * time.
\* train_budget_samples is (samples as f64 * 0.15) as u32: the truncation of
\* the product, which for the sample counts used here is (samples * 15) \div 100.
GuidedState_new(dev, count, samples, time) ==
    With(refine_bsp(<< BspNode(1, U32_MAX, U32_MAX, count) >>, << >>,
                    NoNodes, 0, 0), LAMBDA r :
    With(create_buffer_init(dev, r.bsp), LAMBDA b1 :
    With(create_buffer_init(b1.device,
             [ k \in 1..4 |-> DirTreeNode(F_of(0), W_of(0)) ]), LAMBDA b2 :
    With(create_buffer_init(b2.device, r.new_dir_tree.vec), LAMBDA b3 :
    With(create_bind_group(b3.device, b1.buffer, b2.buffer, b3.buffer),
         LAMBDA bg :
        [ok |-> r.ok,
         guided |-> [bsp |-> b1.buffer,
                     dir_tree |-> b3.buffer,
                     guide |-> b2.buffer,
                     bg |-> bg.bg,
                     iter |-> 0,
                     next_iter |-> INITIAL_SAMPLES,
                     train_budget_samples |-> (samples * 15) \div 100,
                     train_budget_time |-> 15 * time],
         device |-> bg.device,
         refined |-> [ok |-> r.ok, split_threshold |-> 0,
                      before |-> << BspNode(1, U32_MAX, U32_MAX, count) >>,
                      descents |-> r.new_dir_tree.descents,
                      expansions |-> r.new_dir_tree.expansions,
                      splits |-> r.new_dir_tree.splits,
                      n |-> 0, in_flight |-> << >>, current |-> TRUE]])))))

\* mutation of before_sample_begin: the next refinement is scheduled at a
\* fixed distance
before_sample_begin_fixed_gap(g) ==
    [g EXCEPT !.iter = @ + 1,
              !.next_iter = @ + INITIAL_SAMPLES * 2]

\* lines 589-590: the refinement is counted and the next one scheduled
before_sample_begin(g) ==
    [g EXCEPT !.iter = @ + 1,
              !.next_iter = @ + INITIAL_SAMPLES * 2^(g.iter + 1)]

\* lines 618-679: the BSP and the training tree read back are refined, the
\* new buffers and the new bind group replace the old ones, and the film is
\* cleared.  A panic of refine_bsp leaves the state as it was (ok is FALSE).
before_sample_refine(g, dev) ==
    With(refine_bsp(dev.bsp, dev.dir_tree, NoNodes,
                    split_threshold(g.iter), 0), LAMBDA r :
    With([ok |-> r.ok, split_threshold |-> split_threshold(g.iter),
          before |-> dev.bsp,
          descents |-> r.new_dir_tree.descents,
          expansions |-> r.new_dir_tree.expansions,
          splits |-> r.new_dir_tree.splits,
          n |-> g.iter,
          in_flight |-> dev.queue,
          current |-> dev.bsp = g.bsp.data /\ dev.dir_tree = g.dir_tree.data],
         LAMBDA log :
    With([dev EXCEPT !.bsp = << >>, !.dir_tree = << >>], LAMBDA taken :
        IF ~ r.ok
        THEN [ok |-> FALSE, guided |-> g, device |-> taken, refined |-> log]
        ELSE
    With(create_buffer_init(taken, r.bsp), LAMBDA b1 :
    With(create_buffer_init(b1.device, r.new_dir_tree.vec), LAMBDA b2 :
    With(create_bind_group(b2.device, b1.buffer, g.dir_tree, b2.buffer),
         LAMBDA bg :
        [ok |-> TRUE,
         guided |-> [g EXCEPT !.bsp = b1.buffer,
                              !.dir_tree = b2.buffer,
                              !.guide = g.dir_tree,
                              !.bg = bg.bg],
         device |-> submit(bg.device, "clear", NoBindGroup),
         refined |-> log]))))))

(***************************************************************************)
(* The rendering kernel (external): a dispatch adds the visits of a leaf   *)
(* to its count and the flux it gathers to the accumulators of the leaf's  *)
(* training tree.                                                          *)
(***************************************************************************)
F_inf == [n |-> 1, d |-> 0]

Flux4(a, b, c, d) == << a, b, c, d >>

\* flux gathered by one dispatch, as what is added to the four accumulators
\* of the root of a training tree and of the node under its first child
FluxPatterns ==
    { [root |-> r, child |-> Flux4(F_of(0), F_of(0), F_of(0), F_of(0))] :
        r \in { Flux4(F_of(1), F_of(0), F_of(0), F_of(0)),
                Flux4(F_of(1), F_of(3), F_of(0), F_of(0)),
                Flux4(F_of(-1), F_of(-1), F_of(0), F_of(0)),
                Flux4(F_of(-1), F_of(1), F_of(0), F_of(0)),
                Flux4(F_of(-1), F_of(3), F_of(0), F_of(0)),
                Flux4(F_inf, F_of(0), F_of(0), F_of(0)),
                Flux4(F_of(0), F_of(0), F_of(1), F_inf),
                Flux4(F_nan, F_of(1), F_of(0), F_of(0)) } }
    \cup
    { [root |-> Flux4(F_of(1), F_of(1), F_of(1), F_of(1)), child |-> c] :
        c \in { Flux4(F_of(3), F_of(1), F_of(0), F_of(0)),
                Flux4(F_of(1), F_of(0), F_of(0), F_of(0)),
                Flux4(F_of(-1), F_of(-1), F_of(0), F_of(0)),
                Flux4(F_of(0), F_inf, F_of(0), F_of(0)) } }

\* visits recorded by one dispatch in one leaf
VisitCounts == {1, 32001, 64002}

Leaves(bsp) == { k \in 0..(Len(bsp) - 1) : bsp[k + 1].is_leaf = 1 }

\* atomicAdd on the count of a leaf
kernel_visit(bsp, leaf, visits) ==
    [bsp EXCEPT ![leaf + 1].count = @ + visits]

\* flux added to the accumulators of node `at` of the training tree
add_flux(tree, at, flux) ==
    [tree EXCEPT ![at + 1] =
        [ k \in 1..4 |-> [@[k] EXCEPT !.flux = F_add(@, flux[k])] ]]

\* the flux of a pattern added to the training tree of a leaf
kernel_flux(bsp, tree, leaf, pattern) ==
    LET root == IndexIn(bsp[leaf + 1].right, Len(tree))
    IN  IF root = Len(tree) THEN tree
        ELSE LET child == IndexIn(tree[root + 1][1].child, Len(tree))
                 t1 == add_flux(tree, root, pattern.root)
             IN  IF child = Len(tree) THEN t1
                 ELSE add_flux(t1, child, pattern.child)

(***************************************************************************)
(* The refinement specification: a guide is made from a seed leaf, the     *)
(* kernel records visits and flux, and before_sample refines (the device   *)
(* is idle, so that what is read back is what the buffers hold).           *)
(* loop.writes counts the writes of the kernel, loop.since those since the *)
(* last refinement.                                                        *)
(***************************************************************************)
SeedCounts == {0, 1, 8 * 8}

ArenaUnused ==
    /\ scene = Scene_default
    /\ issued = << >>
    /\ light_powers = << >>
    /\ last = NoCall
    /\ hcall = NoHandleCall
    /\ builder = NoBuilder

InitRefine ==
    /\ ArenaUnused
    /\ \E count \in SeedCounts :
        \E made \in { GuidedState_new(NewDevice, count, 0, 0) } :
            /\ guided = made.guided
            /\ device = made.device
            /\ refined = made.refined
    /\ loop = [pc |-> "run", writes |-> 0, since |-> 0]

Running ==
    /\ loop.pc = "run"
    /\ Len(guided.bsp.data) <= MaxBspNodes

KernelVisit ==
    /\ Running
    /\ loop.writes < MaxWrites
    /\ \E leaf \in Leaves(guided.bsp.data), visits \in VisitCounts :
          guided' = [guided EXCEPT
                       !.bsp.data = kernel_visit(@, leaf, visits)]
    /\ loop' = [loop EXCEPT !.writes = @ + 1, !.since = @ + 1]
    /\ UNCHANGED << avars, device, refined >>

KernelFlux ==
    /\ Running
    /\ loop.writes < MaxWrites
    /\ \E leaf \in Leaves(guided.bsp.data), pattern \in FluxPatterns :
          guided' = [guided EXCEPT
                       !.dir_tree.data =
                           kernel_flux(guided.bsp.data, @, leaf, pattern)]
    /\ loop' = [loop EXCEPT !.writes = @ + 1, !.since = @ + 1]
    /\ UNCHANGED << avars, device, refined >>

\* before_sample with its condition true, on an idle device
Refining ==
    /\ \E r \in { before_sample_refine(
                      before_sample_begin(guided),
                      [device EXCEPT !.bsp = guided.bsp.data,
                                     !.dir_tree = guided.dir_tree.data]) } :
          /\ guided' = r.guided
          /\ device' = [r.device EXCEPT !.queue = << >>]
          /\ refined' = r.refined
          /\ loop' = [loop EXCEPT !.pc = IF r.ok THEN "run" ELSE "panicked",
                                  !.since = 0]
    /\ UNCHANGED avars

RefineStep ==
    /\ Running
    /\ guided.iter < MaxIter
    /\ Refining

NextRefine ==
    \/ KernelVisit
    \/ KernelFlux
    \/ RefineStep

SpecRefine == InitRefine /\ [][NextRefine]_vars

(***************************************************************************)
(* The deep-tree specification: between refinements the kernel records     *)
(* flux along one path of the training tree, in the first quadrant at      *)
(* every level, so that the tree grows deeper with every refinement.       *)
(***************************************************************************)
PathFlux == {1, 2, 3, 4}

\* flux `amount` added to accumulator `slot` of node `at` and of every node
\* below it along that slot
RECURSIVE path_flux(_, _, _, _)
path_flux(tree, at, slot, amount) ==
    LET flux == [ k \in 1..4 |-> IF k = slot THEN F_of(amount) ELSE F_of(0) ]
        child == IndexIn(tree[at + 1][slot].child, Len(tree))
    IN  IF child = Len(tree) THEN add_flux(tree, at, flux)
        ELSE path_flux(add_flux(tree, at, flux), child, slot, amount)

\* the flux of one such path added to the training tree of a leaf
kernel_flux_path(bsp, tree, leaf, slot, amount) ==
    LET root == IndexIn(bsp[leaf + 1].right, Len(tree))
    IN  IF root = Len(tree) THEN tree ELSE path_flux(tree, root, slot, amount)

InitDeep ==
    /\ ArenaUnused
    /\ \E made \in { GuidedState_new(NewDevice, 0, 0, 0) } :
          /\ guided = made.guided
          /\ device = made.device
          /\ refined = made.refined
    /\ loop = [pc |-> "run", writes |-> 0, since |-> 0]

DeepKernelFlux ==
    /\ loop.pc = "run"
    /\ loop.since = 0
    /\ guided.iter < MaxDeepIter
    /\ \E leaf \in Leaves(guided.bsp.data), amount \in PathFlux :
          guided' = [guided EXCEPT
                       !.dir_tree.data =
                           kernel_flux_path(guided.bsp.data, @, leaf, 1, amount)]
    /\ loop' = [loop EXCEPT !.writes = @ + 1, !.since = @ + 1]
    /\ UNCHANGED << avars, device, refined >>

DeepRefine ==
    /\ loop.pc = "run"
    /\ guided.iter < MaxDeepIter
    /\ Refining

NextDeep ==
    \/ DeepKernelFlux
    \/ DeepRefine

SpecDeep == InitDeep /\ [][NextDeep]_vars

(***************************************************************************)
(* The render loop specification (main.rs 299-347): one dispatch per       *)
(* sample, before_sample ahead of each, the device completing submissions  *)
(* on its own.  loop.pc is the blocking call the host is at: "top" (none,  *)
(* the loop is about to start an iteration), "stats" (the poll of          *)
(* collect_stats), "read" (the poll after the two read_buffer calls),      *)
(* "wait" (the poll for the submission of the previous iteration), "drain" *)
(* (the poll after the loop).  loop.now is the clock, loop.time the        *)
(* `time` of the latest iteration.                                         *)
(***************************************************************************)
PlannedSamples == {MaxSamples \div 2, MaxSamples}
Ticks == {0, 1}

\* what a dispatch of the kernel records: here one visit in the first leaf
\* and one unit of flux in the first accumulator of its training tree
DispatchFlux ==
    [root |-> Flux4(F_of(1), F_of(0), F_of(0), F_of(0)),
     child |-> Flux4(F_of(0), F_of(0), F_of(0), F_of(0))]

FirstLeaf(bsp) == CHOOSE leaf \in Leaves(bsp) : \A l \in Leaves(bsp) : leaf <= l

InitGuide ==
    /\ ArenaUnused
    /\ \E count \in { c \in SeedCounts : c < MaxBspNodes },
          samples \in PlannedSamples :
        \E made \in { GuidedState_new(NewDevice, count, samples, MaxTime) } :
            /\ guided = made.guided
            /\ device = submit(made.device, "empty", NoBindGroup)
            /\ refined = made.refined
            /\ loop = [pc |-> "top", first |-> 0, i |-> 0, time |-> 0,
                       now |-> 0, last |-> 1, new |-> 1,
                       samples |-> samples, time_limit |-> MaxTime]

\* lines 305-309: the range is used up, or the time limit has passed
LoopEnd ==
    /\ loop.pc = "top"
    /\ \/ /\ loop.i >= loop.samples
          /\ loop' = [loop EXCEPT !.pc = "drain"]
       \/ /\ loop.i < loop.samples
          /\ \E a \in Ticks, b \in Ticks :
                /\ loop.now + a + b >= loop.time_limit
                /\ loop' = [loop EXCEPT !.pc = "drain",
                                        !.time = loop.now + a,
                                        !.now = loop.now + a + b]
    /\ UNCHANGED << avars, guided, device, refined >>

\* lines 305-340 when before_sample does nothing: the dispatch of sample i
\* is submitted and the host waits for the previous submission
Sample ==
    /\ loop.pc = "top"
    /\ loop.i < loop.samples
    /\ \E a \in Ticks, b \in Ticks :
          /\ loop.now + a + b < loop.time_limit
          /\ ~ should_refine(guided, loop.i, loop.now + a)
          /\ loop' = [loop EXCEPT !.pc = "wait",
                                  !.time = loop.now + a,
                                  !.now = loop.now + a + b,
                                  !.new = device.submitted + 1]
    /\ device' = submit(device, "dispatch", << guided.bg >>)
    /\ UNCHANGED << avars, guided, refined >>

\* lines 305-313 and 585-592: before_sample starts a refinement, up to the
\* poll of collect_stats
SampleBeginRefine ==
    /\ loop.pc = "top"
    /\ loop.i < loop.samples
    /\ \E a \in Ticks, b \in Ticks :
          /\ loop.now + a + b < loop.time_limit
          /\ should_refine(guided, loop.i, loop.now + a)
          /\ loop' = [loop EXCEPT !.pc = "stats",
                                  !.time = loop.now + a,
                                  !.now = loop.now + a + b]
    /\ guided' = before_sample_begin(guided)
    /\ device' = submit(device, "stats", NoBindGroup)
    /\ UNCHANGED << avars, refined >>

\* lines 592-626: collect_stats returns, the two read_buffer calls are made
\* and the host polls again
StatsPolled ==
    /\ loop.pc = "stats"
    /\ poll_wait_indefinitely(device)
    /\ device' = submit(submit(device, "read_bsp", NoBindGroup),
                        "read_dir_tree", NoBindGroup)
    /\ loop' = [loop EXCEPT !.pc = "read"]
    /\ UNCHANGED << avars, guided, refined >>

\* lines 626-680 and 315-340: the poll returns, the guide is refined and
\* replaced, and the dispatch of sample i is submitted with the new bind
\* group
ReadPolled ==
    /\ loop.pc = "read"
    /\ poll_wait_indefinitely(device)
    /\ \E r \in { before_sample_refine(guided, device) } :
          /\ guided' = r.guided
          /\ refined' = r.refined
          /\ IF r.ok
             THEN /\ device' = submit(r.device, "dispatch", << r.guided.bg >>)
                  /\ loop' = [loop EXCEPT !.pc = "wait",
                                          !.new = r.device.submitted + 1]
             ELSE /\ device' = r.device
                  /\ loop' = [loop EXCEPT !.pc = "panicked"]
    /\ UNCHANGED avars

\* lines 334-341: the previous submission has completed
WaitLast ==
    /\ loop.pc = "wait"
    /\ poll_wait(device, loop.last)
    /\ loop' = [loop EXCEPT !.pc = "top", !.last = loop.new, !.i = @ + 1]
    /\ UNCHANGED << avars, guided, device, refined >>

\* line 347: the poll after the loop
Drained ==
    /\ loop.pc = "drain"
    /\ poll_wait_indefinitely(device)
    /\ loop' = [loop EXCEPT !.pc = "done"]
    /\ UNCHANGED << avars, guided, device, refined >>

\* the device completes its oldest submission: a dispatch writes to the
\* buffers of its bind group, a read_buffer copies the buffer back
GpuComplete ==
    /\ device.queue # << >>
    /\ \E s \in { Head(device.queue) } :
          /\ device' =
                [device EXCEPT
                   !.queue = Tail(@),
                   !.bsp = IF s.kind = "read_bsp" THEN guided.bsp.data ELSE @,
                   !.dir_tree = IF s.kind = "read_dir_tree"
                                THEN guided.dir_tree.data ELSE @]
          /\ guided' =
                IF s.kind = "dispatch" /\ s.bg = << guided.bg >>
                THEN [guided EXCEPT
                        !.bsp.data = kernel_visit(@, FirstLeaf(@), 1),
                        !.dir_tree.data =
                            kernel_flux(guided.bsp.data, @,
                                        FirstLeaf(guided.bsp.data),
                                        DispatchFlux)]
                ELSE guided
    /\ UNCHANGED << avars, loop, refined >>

NextGuide ==
    \/ LoopEnd
    \/ Sample
    \/ SampleBeginRefine
    \/ StatsPolled
    \/ ReadPolled
    \/ WaitLast
    \/ Drained
    \/ GpuComplete

SpecGuide == InitGuide /\ [][NextGuide]_vars

(***************************************************************************)
(* The schedule specification: the render loop of a long render, started   *)
(* at sample 0 or, with --sample-offset (main.rs 41-42, 305), later.       *)
(***************************************************************************)
SampleOffsets == {0, INITIAL_SAMPLES + 1}

InitSchedule ==
    /\ ArenaUnused
    /\ \E offset \in SampleOffsets :
        \E made \in { GuidedState_new(NewDevice, 0, LongRender, MaxTime) } :
            /\ guided = made.guided
            /\ device = submit(made.device, "empty", NoBindGroup)
            /\ refined = made.refined
            /\ loop = [pc |-> "top", first |-> offset, i |-> offset,
                       time |-> 0, now |-> 0, last |-> 1, new |-> 1,
                       samples |-> LongRender, time_limit |-> MaxTime]

SpecSchedule == InitSchedule /\ [][NextGuide]_vars

(***************************************************************************)
(* The scene loader (loader/pbrt.rs): the directives that place shapes,    *)
(* open and close named objects and instance them, and the end of          *)
(* load_pbrt_scene.  state.transform is a translation, held as its offset. *)
(***************************************************************************)
\* lines 29-47; root and root_ls are the fields of builder.scene that
\* load_pbrt_scene sets at lines 52 and 55; objects is the HashMap, as a
\* set of pairs
SceneBuilder_new(error_material) ==
    [state |-> [transform |-> V_ZERO, material |-> error_material,
                area_light |-> None],
     current_prims |-> << >>,
     lights |-> << >>,
     objects |-> { },
     object_state |-> None,
     root |-> None,
     root_ls |-> None,
     pc |-> "parsing"]

\* outcome of a directive
Parsed(s, b, entries) == [scene |-> s, builder |-> b, ok |-> TRUE, entries |-> entries]
ParsePanic(s, b) == [scene |-> s, builder |-> b, ok |-> FALSE, entries |-> << >>]

\* lines 160-162
translate(s, b, offset) ==
    Parsed(s, [b EXCEPT !.state.transform =
                          << @[1] + offset[1], @[2] + offset[2], @[3] + offset[3] >>],
           << >>)

\* lines 609-654, for a sphere of radius 1 and no area light in the state
sphere(s, b) ==
    With(add_sphere(s, UnitSphere), LAMBDA r1 :
    With(add_constant_spectrum(r1.scene, 1), LAMBDA r2 :
    With(add_constant_spectrum_texture(r2.scene, r2.rets[1]), LAMBDA r3 :
    With([shape |-> r1.rets[1], material |-> b.state.material,
          light |-> LightId_ZERO, alpha |-> r3.rets[1]], LAMBDA prim :
    With(add_primitive(r3.scene, prim), LAMBDA r4 :
    With(add_transform(r4.scene, Translate(b.state.transform), r4.rets[1]),
         LAMBDA r5 :
        Parsed(r5.scene,
               [b EXCEPT !.current_prims = Append(@, r5.rets[1])],
               << Entry("ShapeId", "spheres", r1.rets[1], UnitSphere),
                  Entry("SpectrumId", "constant_spectra", r2.rets[1],
                        [value |-> 1]),
                  Entry("TextureId", "constant_spectrum_tex", r3.rets[1],
                        [spectrum |-> r2.rets[1]]),
                  Entry("NodeId", "primitive_nodes", r4.rets[1], prim),
                  Entry("NodeId", "transform_nodes", r5.rets[1],
                        [transform |-> Translate(b.state.transform),
                         object |-> r4.rets[1]]) >>)))))))

\* lines 113-118
begin_object(s, b, name) ==
    IF b.object_state # None THEN ParsePanic(s, b)
    ELSE Parsed(s, [b EXCEPT !.object_state =
                               Some([name |-> name,
                                     old_prims |-> b.current_prims]),
                             !.current_prims = << >>],
                << >>)

\* HashMap::insert
insert(map, key, value) ==
    { p \in map : p[1] # key } \cup { << key, value >> }

\* lines 120-131; the set of possible outcomes (add_bvh has several)
end_object(s, b) ==
    IF b.object_state = None THEN { ParsePanic(s, b) }
    ELSE LET st == b.object_state[1]
             b1 == [b EXCEPT !.object_state = None]
         IN  IF b.current_prims = << >>
             THEN { Parsed(s, b1, << >>) }
             ELSE { IF ~ r.ok THEN ParsePanic(r.scene, b1)
                    ELSE Parsed(r.scene,
                                [b1 EXCEPT !.current_prims = st.old_prims,
                                           !.objects = insert(@, st.name, r.rets[1])],
                                << Entry("NodeId", "bvh_nodes", r.rets[1], << >>) >>)
                    : r \in add_bvh(s, b.current_prims) }

\* lines 133-146
instance_object(s, b, name) ==
    IF ~ \E p \in b.objects : p[1] = name THEN Parsed(s, b, << >>)
    ELSE LET obj == (CHOOSE p \in b.objects : p[1] = name)[2]
             r == add_transform(s, Translate(b.state.transform), obj)
         IN  Parsed(r.scene,
                    [b EXCEPT !.current_prims = Append(@, r.rets[1])],
                    << Entry("NodeId", "transform_nodes", r.rets[1],
                             [transform |-> Translate(b.state.transform),
                              object |-> obj]) >>)

\* load_pbrt_scene, lines 51-55, after the parser has returned
load_pbrt_scene_end(s, b) ==
    { IF ~ r.ok THEN ParsePanic(r.scene, b)
      ELSE LET ls == add_power_light_sampler(r.scene, b.lights)
           IN  IF ~ ls.ok THEN ParsePanic(ls.scene, [b EXCEPT !.root = Some(r.rets[1])])
               ELSE Parsed(ls.scene,
                           [b EXCEPT !.root = Some(r.rets[1]),
                                     !.root_ls = Some(ls.rets[1]),
                                     !.pc = "loaded"],
                           << Entry("NodeId", "bvh_nodes", r.rets[1], << >>),
                              Entry("LightSamplerId", "power_light_samplers",
                                    ls.rets[1], [count |-> Len(b.lights)]) >>)
      : r \in add_bvh(s, b.current_prims) }

(***************************************************************************)
(* The loader specification: any MaxDirectives directives of a scene file, *)
(* then the end of load_pbrt_scene.                                        *)
(***************************************************************************)
ObjectNames == {"a", "b"}
Offsets == { << 2, 0, 0 >>, << 0, 2, 0 >> }

InitLoader ==
    \E start \in {LoaderPreamble} :
        /\ scene = start.scene
        /\ issued = start.issued
        /\ light_powers = << >>
        /\ last = NoCall
        /\ hcall = NoHandleCall
        /\ GuideUnused
        /\ builder = SceneBuilder_new(start.issued[3].id)

\* the parser is running: no directive has panicked
Parsing == builder.pc = "parsing" /\ last.ok

MoreDirectives == Parsing /\ last.n < MaxDirectives

Directive(op, o) ==
    /\ scene' = o.scene
    /\ builder' = o.builder
    /\ issued' = issued \o o.entries
    /\ last' = [op |-> op, n |-> last.n + 1, rets |-> << >>, ok |-> o.ok,
                nodes |-> << >>, splits |-> { }]
    /\ UNCHANGED << light_powers, hcall, gvars >>

LoaderTranslate ==
    /\ MoreDirectives
    /\ \E offset \in Offsets :
          /\ builder.state.transform[1] + builder.state.transform[2] < MaxOffset
          /\ Directive("translate", translate(scene, builder, offset))

LoaderSphere == MoreDirectives /\ Directive("sphere", sphere(scene, builder))

LoaderBeginObject ==
    /\ MoreDirectives
    /\ \E name \in ObjectNames :
          Directive("begin_object", begin_object(scene, builder, name))

LoaderEndObject ==
    /\ MoreDirectives
    /\ \E o \in end_object(scene, builder) : Directive("end_object", o)

LoaderInstanceObject ==
    /\ MoreDirectives
    /\ \E name \in ObjectNames :
          Directive("instance_object", instance_object(scene, builder, name))

LoaderEnd ==
    /\ Parsing
    /\ \E o \in load_pbrt_scene_end(scene, builder) :
          Directive("load_pbrt_scene", o)

NextLoader ==
    \/ LoaderTranslate
    \/ LoaderSphere
    \/ LoaderBeginObject
    \/ LoaderEndObject
    \/ LoaderInstanceObject
    \/ LoaderEnd

SpecLoader == InitLoader /\ [][NextLoader]_vars

(***************************************************************************)
(* Properties.                                                             *)
(***************************************************************************)

\* C1: for every handle kind, variant and index idx <= IDX_MASK, new(ty, idx)
\* returns a handle that ty() and idx() decode back to exactly (ty, idx); and
\* new(ty, idx) with idx > IDX_MASK aborts (it never returns a handle whose
\* index bits ran into the tag bits).  IDX_MASK is 2^(32 - TAG_BITS) - 1, so
\* idx <= IDX_MASK says: no bits above bit 31, and the upper 16-bit limb of
\* the low word is below 2^(16 - TAG_BITS).
C1_HandleRoundTrip ==
    LET fits == /\ hcall.index[1] = 0
                /\ hcall.index[2] < 2 ^ (16 - TAG_BITS(hcall.kind))
    IN  /\ hcall.pc = "panicked" => ~ fits
        /\ hcall.pc \in {"made", "decoded"} => fits /\ hcall.result # Panic
        /\ hcall.pc = "decoded" =>
              /\ hcall.ty = hcall.variant
              /\ hcall.idx = hcall.index

\* a MaterialId with the last variant and the largest index has been decoded
C1_Witness ==
    /\ hcall.pc = "decoded"
    /\ hcall.kind = "MaterialId"
    /\ hcall.variant = "Mix"
    /\ hcall.index = << 0, 8191, 65535 >>

\* the handles a call returned: the entries it added to the log
C2_NewEntries == SubSeq(issued', Len(issued) + 1, Len(issued'))

\* every handle the call returned has the variant of its array and, as
\* index, the length of that array before the call (the k-th handle of
\* add_triangles: that length plus k - 1)
C2_IndexIsLength ==
    (last'.n = last.n + 1 /\ last'.ok) =>
        /\ last'.rets = [ k \in 1..Len(C2_NewEntries) |-> C2_NewEntries[k].id ]
        /\ \A k \in 1..Len(C2_NewEntries) :
              LET e == C2_NewEntries[k]
              IN  /\ Id_idx(e.kind, e.id) = U_of(Len(scene[e.array]) + k - 1)
                  /\ Id_ty(e.kind, e.id) # "invalid"
                  /\ e.array \in
                        IF e.kind = "LightId"
                        THEN {LightArray(Id_ty(e.kind, e.id))}
                        ELSE ArrayNames

\* the record at the index of every handle issued so far has, in every
\* field that was passed to the call, the value that was passed
C2_RecordsKept ==
    \A i \in 1..Len(issued) :
        LET e == issued[i]
            at == U_nat(Id_idx(e.kind, e.id)) + 1
        IN  /\ at <= Len(scene[e.array])
            /\ \A f \in DOMAIN e.rec : scene[e.array][at][f] = e.rec[f]

\* C2: after any sequence of add_* calls, each call returned a handle whose
\* index is the length the matching array had just before the call, and the
\* record stored at the index of every handle returned so far is still the
\* record passed when the handle was created (no re-numbering, no
\* compaction).
C2_StableHandles == [] C2_RecordsKept /\ [][C2_IndexIsLength]_vars

\* a second material, with another texture than the first, has been added
C2_Witness ==
    /\ last.op = "add_diffuse_material"
    /\ Len(scene.diffuse_mat) = 2
    /\ scene.diffuse_mat[1].texture # scene.diffuse_mat[2].texture

\* the arrays whose length the call changed
C3_Resized == { a \in ArrayNames : Len(scene'[a]) # Len(scene[a]) }

\* the arrays whose length or content the call changed
C3_Changed == { a \in ArrayNames : scene'[a] # scene[a] }

C3_Grows(op) ==
    CASE op = "add_sphere" -> {"spheres"}
      [] op = "add_triangles" -> {"triangles", "triangle_vertices"}
      [] op = "add_primitive" -> {"primitive_nodes"}
      [] op = "add_transform" -> {"transform_nodes"}
      [] op = "add_bvh" -> {"bvh_nodes"}
      [] op = "add_diffuse_material" -> {"diffuse_mat"}
      [] op = "add_constant_float_texture" -> {"constant_float_tex"}
      [] op = "add_constant_spectrum" -> {"constant_spectra"}
      [] op = "add_piecewise_linear_spectrum" ->
            {"piecewise_linear_spectra", "float_data"}
      [] op = "add_image" -> {"images"}
      [] op = "add_uniform_light" ->
            {"uniform_lights", "infinite_lights", "all_lights"}
      [] op = "add_image_light" ->
            {"image_lights", "infinite_lights", "all_lights", "float_data"}
      [] op = "add_area_light" -> {"area_lights", "all_lights"}
      [] op = "add_uniform_light_sampler" ->
            {"uniform_light_samplers", "uniform_light_sampler_data"}
      [] op = "add_power_light_sampler" ->
            {"power_light_samplers", "power_light_sampler_data"}

C3_LightArrays == {"uniform_lights", "image_lights", "area_lights"}

C3_SamplerOps == {"add_uniform_light_sampler", "add_power_light_sampler"}

C4_NodeCount ==
    [][ (last'.n = last.n + 1 /\ last'.op = "add_bvh" /\ last'.ok) =>
            /\ Len(last'.nodes) >= 1
            /\ Len(scene'.bvh_nodes)
                 = Len(scene.bvh_nodes) + 2 * Len(last'.nodes) - 1 ]_vars

\* the first add_bvh of the scene was over 4 handles and left 7 nodes
C4_Witness ==
    /\ last.op = "add_bvh"
    /\ last.ok
    /\ Len(last.nodes) = 4
    /\ Len(scene.bvh_nodes) = 7

\* index into bvh_nodes (from 1) of the node a Bvh handle names
C5_At(h) == U_nat(Id_idx("NodeId", h)) + 1

\* the leaf wrappers reachable from node i: i itself when flags = 0,
\* otherwise those of the left child (next in the array) and of far_node
RECURSIVE C5_Leaves(_, _)
C5_Leaves(nodes, i) ==
    IF nodes[i].flags = 0 THEN {i}
    ELSE C5_Leaves(nodes, i + 1) \cup C5_Leaves(nodes, C5_At(nodes[i].far_node))

\* C5: in the tree emitted by add_bvh over pairwise distinct input handles,
\* every input handle is the far_node of exactly one leaf wrapper
\* (flags = 0) reachable from the returned root, and no leaf wrapper holds a
\* handle that was not in the input.
C5_LeavesAreInputs ==
    (/\ last.op = "add_bvh"
     /\ last.ok
     /\ \A i, j \in 1..Len(last.nodes) : last.nodes[i] = last.nodes[j] => i = j)
    => LET nodes == scene.bvh_nodes
           leaves == C5_Leaves(nodes, C5_At(last.rets[1]))
       IN  /\ \A k \in 1..Len(last.nodes) :
                Cardinality({ l \in leaves : nodes[l].far_node = last.nodes[k] }) = 1
           /\ \A l \in leaves :
                \E k \in 1..Len(last.nodes) : nodes[l].far_node = last.nodes[k]

\* a tree over 3 distinct handles, one of them the instance of an object BVH
C5_Witness ==
    /\ last.op = "add_bvh"
    /\ last.ok
    /\ Len(last.nodes) = 3
    /\ Cardinality(C5_Leaves(scene.bvh_nodes, C5_At(last.rets[1]))) = 3
    /\ \E k \in 1..3 :
          /\ Id_ty("NodeId", last.nodes[k]) = "Transform"
          /\ Id_ty("NodeId",
                   scene.transform_nodes[U_nat(Id_idx("NodeId", last.nodes[k])) + 1].object)
               = "Bvh"

\* C6: the min/max stored in the root node returned by add_bvh are the
\* component-wise union of the bounds of all input objects: on every axis
\* the least min and the greatest max.
C6_RootBounds ==
    (last.op = "add_bvh" /\ last.ok)
    => LET root == scene.bvh_nodes[C5_At(last.rets[1])]
           bb == [ k \in 1..Len(last.nodes) |-> node_bounds(scene, last.nodes[k]) ]
       IN  \A c \in 1..3 :
             /\ \E k \in 1..Len(bb) : root.min[c] = bb[k].min[c]
             /\ \A k \in 1..Len(bb) : root.min[c] <= bb[k].min[c]
             /\ \E k \in 1..Len(bb) : root.max[c] = bb[k].max[c]
             /\ \A k \in 1..Len(bb) : root.max[c] >= bb[k].max[c]

\* a root over 3 objects whose extent on x is set by the last input alone
C6_Witness ==
    /\ last.op = "add_bvh"
    /\ last.ok
    /\ Len(last.nodes) = 3
    /\ LET bb == [ k \in 1..3 |-> node_bounds(scene, last.nodes[k]) ]
       IN  /\ bb[3].max[1] > bb[1].max[1]
           /\ bb[3].max[1] > bb[2].max[1]
           /\ scene.bvh_nodes[C5_At(last.rets[1])].max[1] = bb[3].max[1]

\* last index of the subtree stored from index i on: a leaf wrapper is
\* alone; a split is followed by its left subtree, and what far_node names
\* comes last
RECURSIVE C7_End(_, _)
C7_End(nodes, i) ==
    IF nodes[i].flags = 0 THEN i
    ELSE C7_End(nodes, C5_At(nodes[i].far_node))

\* C7: after any sequence of add_bvh calls on one scene (object BVHs, then
\* the root BVH), every bvh_nodes entry at index i that is an internal split
\* (flags # 0) has its left child stored at index i + 1 (the left subtree
\* fills the array from there up to the node before far_node) and its
\* far_node is a Bvh handle with index > i + 1 inside the array; the build
\* asserts the index of the left child, and that assertion never fails.
\* Indices of the array count from 0, those of the sequence from 1.
C7_LeftChildNext ==
    /\ last.op = "add_bvh" => last.ok
    /\ \A p \in 1..Len(scene.bvh_nodes) :
          scene.bvh_nodes[p].flags # 0 =>
              LET far == scene.bvh_nodes[p].far_node
              IN  /\ Id_ty("NodeId", far) = "Bvh"
                  /\ C5_At(far) > p + 1
                  /\ C5_At(far) <= Len(scene.bvh_nodes)
                  /\ C7_End(scene.bvh_nodes, p + 1) = C5_At(far) - 1

\* the root BVH has been built after an object BVH that it instances, and
\* both have an internal split
C7_Witness ==
    /\ last.op = "add_bvh"
    /\ last.ok
    /\ Cardinality({ i \in 1..Len(issued) : issued[i].array = "bvh_nodes" }) = 2
    /\ scene.bvh_nodes[1].flags # 0
    /\ scene.bvh_nodes[C5_At(last.rets[1])].flags # 0
    /\ \E k \in 1..Len(last.nodes) :
          /\ Id_ty("NodeId", last.nodes[k]) = "Transform"
          /\ Id_ty("NodeId",
                   scene.transform_nodes[U_nat(Id_idx("NodeId", last.nodes[k])) + 1].object)
               = "Bvh"

\* surface area of the box around the objects a..b of a slice, from the
\* least min and the greatest max on every axis; 0 for no object
C8_Area(slice, a, b) ==
    IF a > b THEN 0
    ELSE LET lo(c) == CHOOSE v \in { slice[k].bb.min[c] : k \in a..b } :
                          \A k \in a..b : v <= slice[k].bb.min[c]
             hi(c) == CHOOSE v \in { slice[k].bb.max[c] : k \in a..b } :
                          \A k \in a..b : v >= slice[k].bb.max[c]
             dx == hi(1) - lo(1)
             dy == hi(2) - lo(2)
             dz == hi(3) - lo(3)
         IN  2 * (dx * dy + dx * dz + dy * dz)

\* cost[k] of splitting a slice into [0, k) and [k, len)
C8_Cost(slice, k) ==
    k * C8_Area(slice, 1, k) + (Len(slice) - k) * C8_Area(slice, k + 1, Len(slice))

\* C8: for a slice of len >= 2 objects (after the centroid sort), the split
\* index chosen by build_bvh is the smallest k in 1..len that minimises
\* cost[k] = k * area(union of bounds [0, k)) + (len - k) * area(union of
\* bounds [k, len)), as found by enumerating the split points, and both
\* halves are non-empty (so k < len).
C8_SplitIsFirstMinimum ==
    \A sp \in last.splits :
        LET len == Len(sp.slice)
        IN  /\ len >= 2
            /\ sp.split \in 1..(len - 1)
            /\ \A k \in 1..len : C8_Cost(sp.slice, sp.split) <= C8_Cost(sp.slice, k)
            /\ \A k \in 1..(sp.split - 1) :
                  C8_Cost(sp.slice, k) > C8_Cost(sp.slice, sp.split)

\* a slice of 3 or more objects was split where a later split point has the
\* same, least cost
C8_Witness ==
    /\ last.op = "add_bvh"
    /\ last.ok
    /\ \E sp \in last.splits :
          /\ Len(sp.slice) >= 3
          /\ \E k \in (sp.split + 1)..(Len(sp.slice) - 1) :
                C8_Cost(sp.slice, k) = C8_Cost(sp.slice, sp.split)

\* the buckets the last add_power_light_sampler call wrote
C9_Buckets ==
    LET sampler == scene.power_light_samplers[Len(scene.power_light_samplers)]
    IN  SubSeq(scene.power_light_sampler_data, sampler.ptr + 1,
               sampler.ptr + sampler.count)

\* C9: for any non-empty light list passed to add_power_light_sampler (any
\* mix of infinite and non-infinite lights, any non-negative powers), the
\* pmf fields of the buckets written to the table are well defined (finite
\* numbers, none negative) and sum to 1.
C9_PmfSumsToOne ==
    (last.op = "add_power_light_sampler" /\ last.ok /\ Len(last.nodes) >= 1)
    => /\ Len(C9_Buckets) = Len(last.nodes)
       /\ \A k \in 1..Len(C9_Buckets) :
             /\ F_is_finite(C9_Buckets[k].pmf)
             /\ F_le(F_of(0), C9_Buckets[k].pmf)
       /\ F_sum([ k \in 1..Len(C9_Buckets) |-> C9_Buckets[k].pmf ]) = F_of(1)

\* C10: every bucket written by add_power_light_sampler has 0 <= q <= 1,
\* for non-negative powers with a positive total (some light of the list
\* that is not infinite has a positive power).
C10_QInUnitInterval ==
    (/\ last.op = "add_power_light_sampler"
     /\ last.ok
     /\ \A k \in 1..Len(last.nodes) :
           ~ is_infinite(last.nodes[k]) => light_powers[last.nodes[k]] >= 0
     /\ \E k \in 1..Len(last.nodes) :
           ~ is_infinite(last.nodes[k]) /\ light_powers[last.nodes[k]] > 0)
    => \A k \in 1..Len(C9_Buckets) :
          /\ F_le(F_of(0), C9_Buckets[k].q)
          /\ F_le(C9_Buckets[k].q, F_of(1))

\* a table over three lights, one of them infinite, in which one bucket
\* keeps part of its own probability (0 < q < 1) and has an alias
C10_Witness ==
    /\ last.op = "add_power_light_sampler"
    /\ last.ok
    /\ Len(last.nodes) = 3
    /\ \E k \in 1..3 : is_infinite(last.nodes[k])
    /\ \E k \in 1..Len(C9_Buckets) :
          /\ F_lt(F_of(0), C9_Buckets[k].q)
          /\ F_lt(C9_Buckets[k].q, F_of(1))
          /\ C9_Buckets[k].alias # U32_MAX

\* the probability that a draw from the table selects the light of slot k:
\* a bucket is picked uniformly, its own light is taken with probability q,
\* else the light of bucket alias
C11_Selected(buckets, k) ==
    LET n == Len(buckets)
        from_alias == [ j \in 1..n |->
                          IF buckets[j].alias = W_of(k - 1)
                          THEN F_sub(F_of(1), buckets[j].q)
                          ELSE F_of(0) ]
    IN  F_div(F_add(buckets[k].q, F_sum(from_alias)), F_of(n))

\* C11: the alias table written by add_power_light_sampler over n lights
\* reproduces its pmf exactly: whenever the pmf column is a distribution
\* (every entry a finite number), for every slot i,
\* (q_i + sum over the buckets j with alias_j = i of (1 - q_j)) / n = pmf_i.
C11_TableReproducesPmf ==
    (/\ last.op = "add_power_light_sampler"
     /\ last.ok
     /\ \A k \in 1..Len(C9_Buckets) : F_is_finite(C9_Buckets[k].pmf))
    => \A k \in 1..Len(C9_Buckets) :
          C11_Selected(C9_Buckets, k) = C9_Buckets[k].pmf

\* a table over three lights of powers 1, 1 and 2: the pmf is 1/4, 1/4, 1/2
\* and the buckets of the two weak lights are topped up by the strong one
C11_Witness ==
    /\ last.op = "add_power_light_sampler"
    /\ last.ok
    /\ Len(C9_Buckets) = 3
    /\ \E a, b, c \in 1..3 :
          /\ {a, b, c} = 1..3
          /\ C9_Buckets[a].pmf = F_div(F_of(1), F_of(4))
          /\ C9_Buckets[b].pmf = F_div(F_of(1), F_of(4))
          /\ C9_Buckets[c].pmf = F_div(F_of(1), F_of(2))
          /\ C9_Buckets[a].alias = W_of(c - 1)
          /\ C9_Buckets[b].alias = W_of(c - 1)
          /\ C11_Selected(C9_Buckets, c) = F_div(F_of(1), F_of(2))

\* C12: add_power_light_sampler called with an empty light list aborts: it
\* appends no sampler record and returns no LightSamplerId.
C12_EmptyListAborts ==
    (last.op = "add_power_light_sampler" /\ last.nodes = << >>)
    => /\ ~ last.ok
       /\ last.rets = << >>
       /\ \A k \in 1..Len(scene.power_light_samplers) :
             scene.power_light_samplers[k].count # 0

\* C15: after every refinement (the top-level refine_bsp call of
\* GuidedState::new and that of every before_sample that refines), every
\* leaf of the BSP array has count = 0.
C15_LeafCountsReset ==
    (refined.ok /\ loop.since = 0)
    => \A leaf \in Leaves(guided.bsp.data) :
          guided.bsp.data[leaf + 1].count = 0

\* a refinement by before_sample that found visits in the BSP it read back
\* and split a leaf
C15_Witness ==
    /\ refined.ok
    /\ loop.since = 0
    /\ refined.n >= 1
    /\ refined.splits # { }
    /\ \E k \in 1..Len(refined.before) :
          refined.before[k].is_leaf = 1 /\ refined.before[k].count = 1
    /\ Len(guided.bsp.data) > Len(refined.before)

\* the BSP of GuidedState::new, made from the seed leaf of count 8 * 8
C15_NewWitness ==
    /\ refined.n = 0
    /\ refined.before[1].count = 64
    /\ Len(guided.bsp.data) = 255
    /\ Cardinality(Leaves(guided.bsp.data)) = 128
    /\ Len(guided.dir_tree.data) = 128 * 85

\* C16 as stated: in one refinement, a BSP leaf with count > split_threshold
\* becomes exactly two leaves whose counts sum to the count the parent had
\* before the split, each carrying the parent's guide and train quad-tree
\* indices unchanged.
C16_SplitKeepsCountAndTrees ==
    (refined.ok /\ loop.since = 0)
    => \A s \in refined.splits :
          LET l == guided.bsp.data[s.left + 1]
              r == guided.bsp.data[s.right + 1]
          IN  /\ l.is_leaf = 1
              /\ r.is_leaf = 1
              /\ l.count + r.count = s.parent.count
              /\ l.left = s.parent.left /\ l.right = s.parent.right
              /\ r.left = s.parent.left /\ r.right = s.parent.right

\* what has become, at the end of the refinement, of a leaf made by a split
\* of parent
C16_Refined(parent, node) ==
    IF parent.count \div 2 > refined.split_threshold
    THEN /\ node.is_leaf = 0
         /\ node.count = parent.count \div 2
    ELSE /\ node.is_leaf = 1
         /\ node.count = 0
         /\ node.left = parent.right

\* C16 (amended): in one refinement, every leaf with count > split_threshold
\* becomes an internal node over two new leaves appended side by side to the
\* array, each made with half the parent's count rounded down and the
\* parent's guide and train indices; both are refined in the same refinement:
\* one whose count still exceeds the threshold is split in turn, any other
\* ends as a leaf of count 0 whose guide index is the parent's train index.
C16_SplitHalvesAndRefines ==
    (refined.ok /\ loop.since = 0)
    => /\ \A k \in 1..Len(refined.before) :
             (refined.before[k].is_leaf = 1
              /\ refined.before[k].count > refined.split_threshold)
             => \E s \in refined.splits :
                   s.node = k - 1 /\ s.parent = refined.before[k]
       /\ \A s \in refined.splits :
             /\ s.parent.is_leaf = 1
             /\ s.parent.count > refined.split_threshold
             /\ s.right = s.left + 1
             /\ s.left >= Len(refined.before)
             /\ guided.bsp.data[s.node + 1] =
                    BspNode(0, W_of(s.left), W_of(s.right), s.parent.count)
             /\ \A k \in 1..2 :
                   s.made[k] = BspNode(1, s.parent.left, s.parent.right,
                                       s.parent.count \div 2)
             /\ C16_Refined(s.parent, guided.bsp.data[s.left + 1])
             /\ C16_Refined(s.parent, guided.bsp.data[s.right + 1])

\* a leaf of 64002 visits was split and so were its two halves of 32001; the
\* four quarters of 16000 ended as leaves of count 0
C16_Witness ==
    /\ refined.ok
    /\ loop.since = 0
    /\ refined.n = 1
    /\ \E s, t \in refined.splits :
          /\ s.parent.count = 64002
          /\ t.node = s.left
          /\ t.parent.count = 32001
          /\ guided.bsp.data[t.left + 1].is_leaf = 1
          /\ guided.bsp.data[t.left + 1].count = 0

\* every flux accumulator read by the last refinement is a number >= 0
C17_FluxNonNegative ==
    \A h \in refined.descents :
        \A k \in 1..Len(h.flux) :
            F_is_finite(h.flux[k]) /\ F_le(F_of(0), h.flux[k])

\* C17: after any refinement, in the training tree it built, the modelled
\* flux ratio of every expanded child (the ratio of its parent times the
\* child's portion of the parent's flux) does not exceed the ratio of its
\* parent, for flux accumulators that are not negative.
C17_ChildRatioAtMostParent ==
    (refined.ok /\ C17_FluxNonNegative)
    => \A e \in refined.expansions :
          e.id # U32_MAX => F_le(e.child, e.parent)

\* a refinement that read uneven flux below the root: a node of ratio 1/4
\* has an expanded child of ratio 3/16
C17_Witness ==
    /\ refined.ok
    /\ C17_FluxNonNegative
    /\ refined.n >= 1
    /\ \E e \in refined.expansions :
          /\ e.id # U32_MAX
          /\ e.parent = F_norm(1, 4)
          /\ e.child = F_norm(3, 16)

\* the shape of a quad-tree: its nodes with the child indices only
C18_Shape(tree) ==
    [ q \in 1..Len(tree) |-> [ k \in 1..4 |-> tree[q][k].child ] ]

\* the seed tree: what refine_quadtree builds from the none sentinel
C18_SeedTree == refine_quadtree(NoNodes, << >>, U32_MAX, F_of(1), 0).new_nodes.vec

\* C18: a guide whose BSP is a single leaf of count 0 is a single leaf after
\* any number of refinements during which the kernel recorded no visit and
\* no flux, and the training tree each of them builds has the shape of the
\* seed tree built from the none sentinel.
C18_IdleGuideUnchanged ==
    (/\ refined.ok
     /\ loop.writes = 0
     /\ Len(refined.before) = 1
     /\ refined.before[1].count = 0)
    => /\ Len(guided.bsp.data) = 1
       /\ guided.bsp.data[1].is_leaf = 1
       /\ guided.bsp.data[1].count = 0
       /\ C18_Shape(guided.dir_tree.data) = C18_Shape(C18_SeedTree)
       /\ \A q \in 1..Len(guided.dir_tree.data) :
             \A k \in 1..4 : guided.dir_tree.data[q][k].flux = F_of(0)

\* the single leaf after the last of MaxIter refinements without a write;
\* its training tree is the seed tree of 1 + 4 + 16 + 64 nodes
C18_Witness ==
    /\ refined.ok
    /\ loop.writes = 0
    /\ Len(refined.before) = 1
    /\ refined.before[1].count = 0
    /\ guided.iter = MaxIter
    /\ refined.n = MaxIter
    /\ Len(guided.dir_tree.data) = 85
    /\ guided.bsp.data[1].left = guided.bsp.data[1].right

\* the last refinement descended into a node one of whose flux accumulators
\* is negative
C19_ReadNegative ==
    \E h \in refined.descents :
        \E k \in 1..Len(h.flux) : F_lt(h.flux[k], F_of(0))

\* the last refinement descended into a node one of whose flux accumulators
\* is not finite (an infinity or a NaN)
C19_ReadNonFinite ==
    \E h \in refined.descents :
        \E k \in 1..Len(h.flux) : ~ F_is_finite(h.flux[k])

\* C19: whenever a quad-tree node that refine_quadtree descends into holds
\* a flux accumulator that is negative or not finite, the refinement aborts
\* through an assertion: it does not complete.
C19_MalformedFluxAborts ==
    (C19_ReadNegative \/ C19_ReadNonFinite) => ~ refined.ok

\* C20 as stated: a flux value that is not finite is handled by a fallback
\* during refinement, which completes and publishes instead of aborting.
C20_NonFiniteFluxFallsBack ==
    C19_ReadNonFinite => refined.ok /\ loop.pc = "run"

\* C20 (amended): a refinement that descends into a quad-tree node with a
\* flux accumulator that is not finite aborts through an assertion; no BSP,
\* training tree or bind group is published.
C20_NonFiniteFluxAborts ==
    C19_ReadNonFinite
    => /\ ~ refined.ok
       /\ loop.pc = "panicked"
       /\ guided.bsp.data = refined.before

\* a refinement aborted at a root whose fourth accumulator is infinite, after
\* three children of finite flux had been handled
C20_Witness ==
    /\ ~ refined.ok
    /\ loop.pc = "panicked"
    /\ \E h \in refined.descents :
          /\ h.depth = 0
          /\ Len(h.flux) = 4
          /\ h.flux[3] = F_of(1)
          /\ h.flux[4] = F_inf
    /\ Cardinality(refined.expansions) >= 3

\* the training budget is exhausted: the sample index has reached 15% of
\* the planned samples, or the time of the latest iteration 15% of the limit
C13_Exhausted ==
    \/ loop.i >= guided.train_budget_samples
    \/ 100 * loop.time >= guided.train_budget_time

\* what before_sample changes when it refines, buffers and bind group as the
\* objects they are
C13_GuideState ==
    << guided.iter, guided.next_iter, guided.bsp.id, guided.dir_tree.id,
       guided.bg >>

\* C13: once the training budget is exhausted it stays exhausted, and from
\* then on no step changes iter, next_iter, the BSP buffer, the training
\* buffer or the bind group: no call of before_sample refines any more.
C13_FrozenIsAbsorbing ==
    [][C13_Exhausted => (C13_Exhausted' /\ UNCHANGED C13_GuideState)]_vars

\* one refinement was made; the budget of samples is now exhausted and the
\* iteration whose sample index equals next_iter has called before_sample
\* and submitted its dispatch with the bind group of that refinement
C13_Witness ==
    /\ guided.iter = 1
    /\ refined.n = 1
    /\ loop.i >= guided.train_budget_samples
    /\ 100 * loop.time < guided.train_budget_time
    /\ loop.i = guided.next_iter
    /\ loop.pc = "wait"
    /\ \E k \in 1..Len(device.queue) :
          /\ device.queue[k].kind = "dispatch"
          /\ device.queue[k].index = loop.new
          /\ device.queue[k].bg = << guided.bg >>

\* C14: whenever before_sample replaces the guide state (refine_bsp runs and
\* bsp, dir_tree and bg are reassigned), no submission is in flight, so every
\* dispatch submitted before has completed, and what was read back of the
\* BSP and of the training tree is what the two buffers hold.
C14_RefinesWhenDrained ==
    refined.n >= 1
    => /\ refined.in_flight = << >>
       /\ refined.current
       /\ refined.ok

\* every dispatch not yet completed uses the bind group now published
C14_NoStaleDispatch ==
    \A k \in 1..Len(device.queue) :
        device.queue[k].kind = "dispatch"
        => device.queue[k].bg = << guided.bg >>

\* the guide has just been replaced: the dispatch of the iteration before
\* had been submitted and its visit and flux were in the buffers read back
C14_Witness ==
    /\ refined.n = 1
    /\ loop.pc = "wait"
    /\ loop.i = 4
    /\ refined.in_flight = << >>
    /\ \E k \in 1..Len(refined.before) :
          refined.before[k].is_leaf = 1 /\ refined.before[k].count = 4
    /\ \E h \in refined.descents :
          Len(h.flux) = 4 /\ h.flux[1] = F_of(4)
    /\ guided.bg.bsp = guided.bsp.id
    /\ guided.bg.train = guided.dir_tree.id
    /\ guided.bg.guide = guided.guide.id


\* the slots of the last table that hold infinite lights
C21_Infinite == { k \in 1..Len(C9_Buckets) : is_infinite(C9_Buckets[k].light) }

\* the sum of the pmf column of the last table over a set of slots
C21_PmfOver(slots) ==
    F_sum([ k \in 1..Len(C9_Buckets) |->
              IF k \in slots THEN C9_Buckets[k].pmf ELSE F_of(0) ])

\* the list of the last call has a light that is not infinite and has a
\* positive power, and no light of a negative power
C21_PositiveList ==
    /\ last.op = "add_power_light_sampler"
    /\ last.ok
    /\ \A k \in 1..Len(last.nodes) :
          ~ is_infinite(last.nodes[k]) => light_powers[last.nodes[k]] >= 0
    /\ \E k \in 1..Len(last.nodes) :
          ~ is_infinite(last.nodes[k]) /\ light_powers[last.nodes[k]] > 0

\* C21: in the table built by add_power_light_sampler over a list with at
\* least one non-infinite light of positive power, the pmf of every infinite
\* light equals the sum of the pmf of all non-infinite lights of the list;
\* with k infinite lights that is 1 / (k + 1) each.
C21_EachInfiniteEqualsRest ==
    C21_PositiveList
    => \A i \in C21_Infinite :
          /\ C9_Buckets[i].pmf
                = C21_PmfOver((1..Len(C9_Buckets)) \ C21_Infinite)
          /\ C9_Buckets[i].pmf
                = F_div(F_of(1), F_of(Cardinality(C21_Infinite) + 1))

\* a table over two infinite lights and an area light of positive power:
\* each of the three has pmf 1/3
C21_Witness ==
    /\ C21_PositiveList
    /\ Len(C9_Buckets) = 3
    /\ Cardinality(C21_Infinite) = 2
    /\ \A k \in 1..3 : C9_Buckets[k].pmf = F_div(F_of(1), F_of(3))

\* C22 as stated: in the table built by add_power_light_sampler the sum of
\* pmf over the infinite lights equals the sum of pmf over the non-infinite
\* lights, for any number of infinite lights in the list.
C22_AggregateEqualsRest ==
    C21_PositiveList
    => C21_PmfOver(C21_Infinite)
          = C21_PmfOver((1..Len(C9_Buckets)) \ C21_Infinite)

\* C22 amended: with k infinite lights in the list, the infinite lights
\* together have probability k / (k + 1) and the other lights together
\* 1 / (k + 1); the two are equal exactly when k = 1.
C22_AggregateIsKTimesRest ==
    C21_PositiveList
    => LET k == Cardinality(C21_Infinite)
       IN  /\ C21_PmfOver(C21_Infinite) = F_div(F_of(k), F_of(k + 1))
           /\ C21_PmfOver((1..Len(C9_Buckets)) \ C21_Infinite)
                 = F_div(F_of(1), F_of(k + 1))
           /\ (C21_PmfOver(C21_Infinite)
                 = C21_PmfOver((1..Len(C9_Buckets)) \ C21_Infinite))
              <=> (k = 1)

\* a table over two infinite lights and one area light of power 2: the
\* infinite lights have 2/3 together, the area light 1/3
C22_Witness ==
    /\ C21_PositiveList
    /\ Cardinality(C21_Infinite) = 2
    /\ \E k \in 1..Len(C9_Buckets) :
          /\ ~ is_infinite(C9_Buckets[k].light)
          /\ light_powers[C9_Buckets[k].light] = 2
    /\ C21_PmfOver(C21_Infinite) = F_div(F_of(2), F_of(3))

\* C27: no handle returned by add_uniform_light, add_image_light or
\* add_area_light equals LightId::ZERO, the value a PrimitiveNode's light
\* field holds to mean that the primitive has no light.
C27_NoLightIsZero ==
    (/\ last.op \in {"add_uniform_light", "add_image_light", "add_area_light"}
     /\ last.ok)
    => \A k \in 1..Len(last.rets) : last.rets[k] # LightId_ZERO

\* the position of a node handle in a list of handles
C26_Position(nodes, id) == CHOOSE i \in 1..Len(nodes) : nodes[i] = id

\* the slice of the outermost build_bvh call as the sort left it
C26_Sorted(call) ==
    CHOOSE sp \in call.splits : Len(sp.slice) = Len(call.nodes)

\* C26: build_bvh orders the slice by centroid coordinate along the axis of
\* largest extent of the union box, objects with equal centroid coordinate
\* on that axis keep their input order, and so a build over a given input
\* sequence can emit only one node array.
C26_StableSortDeterministicBuild ==
    [][(/\ last'.op = "add_bvh"
        /\ last'.n = last.n + 1
        /\ last'.ok
        /\ Len(last'.nodes) >= 2)
       => LET slice == C26_Sorted(last').slice
              axis == max_position(size(total_bounds(slice)))
          IN  /\ \A i, j \in 1..Len(slice) :
                    i < j => /\ F_le(sort_key(slice[i], axis),
                                     sort_key(slice[j], axis))
                             /\ sort_key(slice[i], axis) = sort_key(slice[j], axis)
                                => C26_Position(last'.nodes, slice[i].id)
                                      < C26_Position(last'.nodes, slice[j].id)
              /\ \A o \in add_bvh(scene, last'.nodes) :
                    o.scene.bvh_nodes = scene'.bvh_nodes]_vars

\* the part of C26 that the sort does provide: the slice of the outermost
\* call is in ascending order of the centroid coordinate on the split axis
C26_SortedByCentroid ==
    (last.op = "add_bvh" /\ last.ok /\ Len(last.nodes) >= 2)
    => LET slice == C26_Sorted(last).slice
           axis == max_position(size(total_bounds(slice)))
       IN  \A i, j \in 1..Len(slice) :
              i < j => F_le(sort_key(slice[i], axis), sort_key(slice[j], axis))

\* C30: for every begin_object / end_object pair of the loader, after
\* end_object the builder's current primitive list is the list that was
\* current when begin_object was called, whether or not the object
\* contained any primitives; for an empty object no BVH is built and no
\* object is registered.
C30_EndObjectRestoresScope ==
    [][(/\ last'.op = "end_object"
        /\ last'.n = last.n + 1
        /\ last'.ok
        /\ builder.object_state # None)
       => /\ builder'.current_prims = builder.object_state[1].old_prims
          /\ builder.current_prims = << >>
             => /\ scene'.bvh_nodes = scene.bvh_nodes
                /\ builder'.objects = builder.objects]_vars

\* the part of C30 that end_object does provide: an object with primitives
\* gives the enclosing list back, and an empty one builds and registers
\* nothing
C30_NonEmptyObjectRestoresScope ==
    [][(/\ last'.op = "end_object"
        /\ last'.n = last.n + 1
        /\ last'.ok
        /\ builder.object_state # None)
       => /\ builder.current_prims # << >>
             => builder'.current_prims = builder.object_state[1].old_prims
          /\ builder.current_prims = << >>
             => /\ scene'.bvh_nodes = scene.bvh_nodes
                /\ builder'.objects = builder.objects]_vars

\* a step of the render loop in which before_sample is called: the loop
\* body is entered and goes on to the dispatch or to a refinement
C23_CallsBeforeSample == loop.pc = "top" /\ loop'.pc \in {"wait", "stats"}

\* the sample index of refinement k
C23_Boundary(k) == INITIAL_SAMPLES * (2^k - 1)

\* C23: with the render loop started at sample 0, the k-th refinement
\* (k = 1, 2, 3, ...) happens at the call for sample 4 * (2^k - 1) if that
\* call is inside the training budget, no refinement happens at any other
\* call or step, and the refinement after it is scheduled 4 * 2^k samples
\* later.
C23_RefinementSchedule ==
    [][loop.first = 0
       => /\ (guided'.iter # guided.iter)
             <=> /\ C23_CallsBeforeSample
                 /\ loop.i = C23_Boundary(guided.iter + 1)
                 /\ loop.i < guided.train_budget_samples
                 /\ 100 * loop'.time < guided.train_budget_time
          /\ (guided'.iter # guided.iter)
             => /\ guided'.iter = guided.iter + 1
                /\ guided'.next_iter - loop.i
                      = INITIAL_SAMPLES * 2^(guided.iter + 1)]_vars

\* a render started at sample 0 has made its third refinement, at sample 28,
\* and scheduled the fourth for sample 60
C23_Witness ==
    /\ loop.first = 0
    /\ guided.iter = 3
    /\ refined.n = 3
    /\ loop.i = 28
    /\ guided.next_iter = 60

\* C29: for every start index of the render loop, at every call
\* before_sample(sample) either sample <= next_iter or the training budget
\* is exhausted.
C29_BoundaryNeverBehind ==
    [][C23_CallsBeforeSample
       => \/ loop.i <= guided.next_iter
          \/ loop.i >= guided.train_budget_samples
          \/ 100 * loop'.time >= guided.train_budget_time]_vars

\* the part of C29 that the loop does provide: it holds for a render that
\* starts at sample 0
C29_BoundaryNeverBehindFromZero ==
    [][(C23_CallsBeforeSample /\ loop.first = 0)
       => \/ loop.i <= guided.next_iter
          \/ loop.i >= guided.train_budget_samples
          \/ 100 * loop'.time >= guided.train_budget_time]_vars

\* the number of levels of the tree under index id (0 for the none sentinel)
RECURSIVE C25_Height(_, _)
C25_Height(tree, id) ==
    IF id = U32_MAX THEN 0
    ELSE LET q == tree[IndexIn(id, Len(tree)) + 1]
             below == { C25_Height(tree, q[k].child) : k \in 1..4 }
         IN  1 + CHOOSE h \in below : \A g \in below : g <= h

\* C25: in every training tree built by refine_quadtree, a child slot holds
\* a node if and only if its modelled flux ratio (the product of the
\* normalised flux portions along the path from the root, starting at 1) is
\* >= 0.01 and its depth is < 20, and holds the none sentinel otherwise;
\* the nodes of the array are the roots and the children so made, and no
\* tree is higher than 20 levels.
C25_SlotsFollowRatioAndDepth ==
    refined.ok
    => /\ \A e \in refined.expansions :
             (e.id # U32_MAX)
             <=> (F_le(LEAF_ENERGY_PORTION, e.child) /\ e.depth < MAX_DEPTH)
       /\ Len(guided.dir_tree.data)
             = Cardinality(Leaves(guided.bsp.data))
               + Cardinality({ e \in refined.expansions : e.id # U32_MAX })
       /\ \A leaf \in Leaves(guided.bsp.data) :
             C25_Height(guided.dir_tree.data, guided.bsp.data[leaf + 1].right)
                <= MAX_DEPTH

\* a refinement that read flux concentrated along one path built a tree of
\* 20 levels: it made a node at depth 19, left the slot under it empty
\* although the whole flux falls in it, and elsewhere left a slot empty for
\* a ratio below 0.01
C25_Witness ==
    /\ refined.ok
    /\ refined.n >= 1
    /\ \E e \in refined.expansions :
          e.depth = MAX_DEPTH - 1 /\ e.id # U32_MAX /\ e.child = F_of(1)
    /\ \E e \in refined.expansions :
          e.depth = MAX_DEPTH /\ e.id = U32_MAX /\ e.child = F_of(1)
    /\ \E e \in refined.expansions :
          /\ e.depth < MAX_DEPTH
          /\ e.id = U32_MAX
          /\ F_lt(e.child, LEAF_ENERGY_PORTION)
    /\ \E leaf \in Leaves(guided.bsp.data) :
          C25_Height(guided.dir_tree.data, guided.bsp.data[leaf + 1].right)
             = MAX_DEPTH

\* index id names a node of the training array that no node of the array
\* has as a child: the root of a tree of its own
C24_FreshRoot(id) ==
    /\ IndexIn(id, Len(guided.dir_tree.data)) < Len(guided.dir_tree.data)
    /\ \A i \in 1..Len(guided.dir_tree.data), k \in 1..4 :
          guided.dir_tree.data[i][k].child # id

\* what a leaf that the refinement did not split has become: still a leaf,
\* its guide index the train index it had, its train index a root of the new
\* array
C24_Promoted(was, now) ==
    /\ now.is_leaf = 1
    /\ now.left = was.right
    /\ C24_FreshRoot(now.right)

\* C24: right after a refinement, every leaf that it did not split (a leaf of
\* the BSP read back whose count is within the threshold, or a leaf made by
\* a split and not split in turn) has as guide index the train index it had
\* before, as train index the root of a tree of the new training array that
\* it shares with no other leaf, and every flux accumulator of the new array
\* is 0.
C24_UnsplitLeafPromoted ==
    (refined.ok /\ loop.since = 0)
    => /\ \A k \in 1..Len(refined.before) :
             (refined.before[k].is_leaf = 1
              /\ refined.before[k].count <= refined.split_threshold)
             => C24_Promoted(refined.before[k], guided.bsp.data[k])
       /\ \A s \in refined.splits : \A k \in {s.left, s.right} :
             (guided.bsp.data[k + 1].is_leaf = 1)
             => C24_Promoted(s.parent, guided.bsp.data[k + 1])
       /\ \A a, b \in Leaves(guided.bsp.data) :
             (guided.bsp.data[a + 1].right = guided.bsp.data[b + 1].right)
             => a = b
       /\ \A i \in 1..Len(guided.dir_tree.data), k \in 1..4 :
             guided.dir_tree.data[i][k].flux = F_of(0)

\* a refinement by before_sample that split one leaf and promoted another
\* whose training tree held flux: that tree is now its guide tree
C24_Witness ==
    /\ refined.ok
    /\ loop.since = 0
    /\ refined.n >= 1
    /\ refined.splits # { }
    /\ \E k \in 1..Len(refined.before) :
          /\ refined.before[k].is_leaf = 1
          /\ refined.before[k].count <= refined.split_threshold
          /\ guided.bsp.data[k].left = refined.before[k].right
          /\ guided.bsp.data[k].left # U32_MAX
          /\ \E d \in refined.descents :
                /\ d.node = refined.before[k].right
                /\ \E j \in 1..4 : d.flux[j] # F_of(0)

\* C28: after GuidedState::new and after every refinement, every BSP leaf
\* has as right a valid index of the array bound as the training tree
\* (binding 2) and as left the none sentinel or a valid index of the array
\* bound as the guide tree (binding 1); every child index of the training
\* array other than the sentinel is smaller than the index of the node that
\* holds it; the left and right of every internal BSP node are valid
\* indices of two distinct nodes of the BSP array.
C28_IndicesValid ==
    LET bsp == guided.bsp.data
        train == guided.dir_tree.data
        guide == guided.guide.data
    IN  /\ guided.bg.bsp = guided.bsp.id
        /\ guided.bg.guide = guided.guide.id
        /\ guided.bg.train = guided.dir_tree.id
        /\ \A k \in 1..Len(bsp) :
              IF bsp[k].is_leaf = 1
              THEN /\ IndexIn(bsp[k].right, Len(train)) < Len(train)
                   /\ \/ bsp[k].left = U32_MAX
                      \/ IndexIn(bsp[k].left, Len(guide)) < Len(guide)
              ELSE /\ IndexIn(bsp[k].left, Len(bsp)) < Len(bsp)
                   /\ IndexIn(bsp[k].right, Len(bsp)) < Len(bsp)
                   /\ bsp[k].left # bsp[k].right
        /\ \A i \in 1..Len(train), k \in 1..4 :
              \/ train[i][k].child = U32_MAX
              \/ IndexIn(train[i][k].child, Len(train)) < i - 1

\* after a refinement by before_sample that split a leaf: an internal node
\* over two leaves, a leaf whose left names a tree of the guide array, and a
\* training node with a child
C28_Witness ==
    /\ refined.ok
    /\ loop.since = 0
    /\ refined.n >= 1
    /\ refined.splits # { }
    /\ \E k \in 1..Len(guided.bsp.data) :
          /\ guided.bsp.data[k].is_leaf = 0
          /\ k > Len(refined.before) \/ refined.before[k].is_leaf = 1
    /\ \E leaf \in Leaves(guided.bsp.data) :
          /\ guided.bsp.data[leaf + 1].left # U32_MAX
          /\ IndexIn(guided.bsp.data[leaf + 1].left, Len(guided.guide.data))
                < Len(guided.guide.data)
    /\ \E i \in 1..Len(guided.dir_tree.data) :
          guided.dir_tree.data[i][1].child # U32_MAX

\* the state GuidedState::new leaves: every leaf without a guide tree
C28_NewWitness ==
    /\ refined.n = 0
    /\ loop.since = 0
    /\ Cardinality(Leaves(guided.bsp.data)) = 128
    /\ \A leaf \in Leaves(guided.bsp.data) :
          guided.bsp.data[leaf + 1].left = U32_MAX
=============================================================================
